---- MODULE Spec2Model ----
(***************************************************************************)
(* The Docx builder of docx-wasm/js/index.ts as a state machine.           *)
(*                                                                         *)
(* The state is one Docx instance (its fields), the heap of Paragraph and  *)
(* Table objects the caller holds references to, the TableCell and         *)
(* TableRow the caller is composing, and the outcome of the last call.     *)
(* The serializer (createDocx and the build* methods) is a family of       *)
(* operators that compute the calls the wasm engine receives: an engine    *)
(* object is the constructor call that made it and the sequence of method  *)
(* calls chained on it, each call a tuple <<name, arg, ...>>.              *)
(***************************************************************************)
EXTENDS Integers, Sequences, FiniteSets, TLC

VARIABLES
    paras,              \* heap of Paragraph objects, a reference is an index
    tables,             \* heap of Table objects, a reference is an index
    cell,               \* the TableCell the caller is composing
    row,                \* the TableRow the caller is composing
    children,           \* Docx.children
    hasNumberings,      \* Docx.hasNumberings
    abstractNumberings, \* Docx.abstractNumberings
    numberings,         \* Docx.numberings
    settings,           \* Docx.settings
    docProps,           \* Docx.docProps
    sectionProperty,    \* Docx.sectionProperty
    _taskpanes,         \* Docx._taskpanes
    webextensions,      \* Docx.webextensions
    customItems,        \* Docx.customItems
    styles,             \* Docx.styles
    ret,                \* the last call and what it returned
    conv,               \* argument and result of the last enum conversion
    this,               \* which of the caller's two Docx instances the fields above are of
    other               \* the fields of the caller's other Docx instance

vars == <<paras, tables, cell, row, children, hasNumberings, abstractNumberings,
          numberings, settings, docProps, sectionProperty, _taskpanes,
          webextensions, customItems, styles, ret, conv, this, other>>

docxVars == <<children, hasNumberings, abstractNumberings, numberings, settings,
              docProps, sectionProperty, _taskpanes, webextensions, customItems,
              styles>>

-----------------------------------------------------------------------------
(* Bounds of the model.                                                    *)

MaxParas == 2
MaxTables == 3
MaxChildren == 2
MaxRows == 1
MaxCells == 1
MaxCellChildren == 2
MaxParagraphChildren == 2
MaxNumberings == 1
MaxOverrides == 2
MaxExtensions == 2
MaxItems == 2

-----------------------------------------------------------------------------
(* JavaScript values.  An optional value (undefined or null until set) is  *)
(* the empty sequence when absent and a one-element sequence when set.     *)

None == <<>>

Some(v) == <<v>>

IsSome(o) == Len(o) > 0

Val(o) == o[1]

\* if (x) for a string: set and not "".
TruthyStr(o) == IsSome(o) /\ Val(o) # ""

\* if (x) for a number: set and not 0.
TruthyNum(o) == IsSome(o) /\ Val(o) # 0

RECURSIVE Flatten(_)
\* forEach over a sequence whose elements each issue zero or more calls.
Flatten(ss) == IF Len(ss) = 0 THEN <<>> ELSE Head(ss) \o Flatten(Tail(ss))

-----------------------------------------------------------------------------
(* Engine objects.                                                         *)

\* let x = wasm.createX(args); x = x.f1(..); x = x.f2(..); ...: the engine
\* object made by the constructor call ctor, then given the calls in order.
Obj(ctor, calls) == [ctor |-> ctor, calls |-> calls]

\* if (cond) { x = x.fn(args) }: the call, when it is made.
When(cond, c) == IF cond THEN <<c>> ELSE <<>>

Fn(c) == c[1]

-----------------------------------------------------------------------------
(* Enum conversions.                                                       *)

BorderTypeCases ==
    {"nil", "none", "single", "thick", "double", "dotted", "dashed", "dotDash",
     "dotDotDash", "triple"}

\* convertBorderType with the default of the switch falling to Nil.
convertBorderType_defaultNil(t) ==
    CASE t = "nil" -> "BorderType.Nil"
      [] t = "none" -> "BorderType.None"
      [] t = "single" -> "BorderType.Single"
      [] t = "thick" -> "BorderType.Thick"
      [] t = "double" -> "BorderType.Double"
      [] t = "dotted" -> "BorderType.Dotted"
      [] t = "dashed" -> "BorderType.Dashed"
      [] t = "dotDash" -> "BorderType.DotDash"
      [] t = "dotDotDash" -> "BorderType.DotDotDash"
      [] t = "triple" -> "BorderType.Triple"
      [] OTHER -> "BorderType.Nil"

convertBorderType(t) ==
    CASE t = "nil" -> "BorderType.Nil"
      [] t = "none" -> "BorderType.None"
      [] t = "single" -> "BorderType.Single"
      [] t = "thick" -> "BorderType.Thick"
      [] t = "double" -> "BorderType.Double"
      [] t = "dotted" -> "BorderType.Dotted"
      [] t = "dashed" -> "BorderType.Dashed"
      [] t = "dotDash" -> "BorderType.DotDash"
      [] t = "dotDotDash" -> "BorderType.DotDotDash"
      [] t = "triple" -> "BorderType.Triple"
      [] OTHER -> "BorderType.Single"

WidthTypeCases == {"nil", "Pct", "DXA", "Auto"}

convertWidthType(t) ==
    CASE t = "nil" -> "WidthType.Nil"
      [] t = "Pct" -> "WidthType.Pct"
      [] t = "DXA" -> "WidthType.DXA"
      [] t = "Auto" -> "WidthType.Auto"
      [] OTHER -> "WidthType.DXA"

\* toTextDirectionWasmType of ./table-cell.
toTextDirectionWasmType(t) == <<"TextDirectionType", t>>

-----------------------------------------------------------------------------
(* Runs.                                                                   *)

buildRunFonts(fonts) ==
    Obj(<<"createRunFonts">>,
        When(IsSome(fonts) /\ TruthyStr(Val(fonts)._ascii),
             <<"ascii", Val(Val(fonts)._ascii)>>)
        \o When(IsSome(fonts) /\ TruthyStr(Val(fonts)._hiAnsi),
                <<"hi_ansi", Val(Val(fonts)._hiAnsi)>>)
        \o When(IsSome(fonts) /\ TruthyStr(Val(fonts)._cs),
                <<"cs", Val(Val(fonts)._cs)>>)
        \o When(IsSome(fonts) /\ TruthyStr(Val(fonts)._eastAsia),
                <<"east_asia", Val(Val(fonts)._eastAsia)>>))

\* if (child.type === "column") ... else if "page" ... else if "textWrapping"
BreakType(type) ==
    CASE type = "column" -> << <<"add_break", "BreakType.Column">> >>
      [] type = "page" -> << <<"add_break", "BreakType.Page">> >>
      [] type = "textWrapping" -> << <<"add_break", "BreakType.TextWrapping">> >>
      [] OTHER -> <<>>

\* The body of r.children.forEach in buildRun: the calls one child issues.
buildRunChild(child) ==
    CASE child.kind = "Text" -> << <<"add_text", child.text>> >>
      [] child.kind = "DeleteText" -> << <<"add_delete_text", child.text>> >>
      [] child.kind = "Tab" -> << <<"add_tab">> >>
      [] child.kind = "Break" -> BreakType(child.type)
      [] OTHER -> <<>>

\* if (r.property.vertAlign) { superscript | subscript }
VertAlignType(vertAlign) ==
    IF ~TruthyStr(vertAlign) THEN <<>>
    ELSE CASE Val(vertAlign) = "superscript" ->
                  << <<"vert_align", "VertAlignType.SuperScript">> >>
           [] Val(vertAlign) = "subscript" ->
                  << <<"vert_align", "VertAlignType.SubScript">> >>
           [] OTHER -> <<>>

buildRun(r) ==
    Obj(<<"createRun">>,
        Flatten([i \in 1..Len(r.children) |-> buildRunChild(r.children[i])])
        \o When(IsSome(r.property.size), <<"size", Val(r.property.size)>>)
        \o When(TruthyStr(r.property.color), <<"color", Val(r.property.color)>>)
        \o When(TruthyStr(r.property.highlight),
                <<"highlight", Val(r.property.highlight)>>)
        \o VertAlignType(r.property.vertAlign)
        \o When(r.property.bold, <<"bold">>)
        \o When(r.property.italic, <<"italic">>)
        \o When(TruthyStr(r.property.underline),
                <<"underline", Val(r.property.underline)>>)
        \o When(r.property.vanish, <<"vanish">>)
        \o When(IsSome(r.property.spacing), <<"spacing", Val(r.property.spacing)>>)
        \o When(IsSome(r.property.textBorder),
                <<"text_border",
                  convertBorderType(Val(r.property.textBorder).borderType),
                  Val(r.property.textBorder).size, Val(r.property.textBorder).space,
                  Val(r.property.textBorder).color>>)
        \o << <<"fonts", buildRunFonts(r.property.fonts)>> >>)

buildInsert(i) ==
    Obj(<<"createInsert", buildRun(i.run)>>,
        When(TruthyStr(i._author), <<"author", Val(i._author)>>)
        \o When(TruthyStr(i._date), <<"date", Val(i._date)>>))

buildDelete(d) ==
    Obj(<<"createDelete", buildRun(d.run)>>,
        When(TruthyStr(d._author), <<"author", Val(d._author)>>)
        \o When(TruthyStr(d._date), <<"date", Val(d._date)>>))

-----------------------------------------------------------------------------
(* Paragraphs and comments.  A Paragraph or Table child is a reference     *)
(* [kind, ref] into the heap; every other node is a value.                 *)

RECURSIVE buildParagraph(_), buildComment(_), buildTable(_), buildCell(_)

\* The body of c.children.forEach in buildComment.
buildCommentChild(child) ==
    CASE child.kind = "Paragraph" ->
            << <<"add_paragraph", buildParagraph(child.ref)>> >>
      [] child.kind = "Table" -> <<>>
      [] OTHER -> <<>>

buildComment(c) ==
    Obj(<<"createComment", c.id>>,
        Flatten([i \in 1..Len(c.children) |-> buildCommentChild(c.children[i])])
        \o When(TruthyStr(c._author), <<"author", Val(c._author)>>)
        \o When(TruthyStr(c._date), <<"date", Val(c._date)>>)
        \o When(TruthyNum(c._parentCommentId),
                <<"parent_comment_id", Val(c._parentCommentId)>>))

\* The body of p.children.forEach in buildParagraph.
buildParagraphChild(child) ==
    CASE child.kind = "Run" -> << <<"add_run", buildRun(child)>> >>
      [] child.kind = "Insert" -> << <<"add_insert", buildInsert(child)>> >>
      [] child.kind = "Delete" -> << <<"add_delete", buildDelete(child)>> >>
      [] child.kind = "BookmarkStart" ->
            << <<"add_bookmark_start", child.id, child.name>> >>
      [] child.kind = "BookmarkEnd" -> << <<"add_bookmark_end", child.id>> >>
      [] child.kind = "Comment" ->
            << <<"add_comment_start", buildComment(child)>> >>
      [] child.kind = "CommentEnd" -> << <<"add_comment_end", child.id>> >>
      [] OTHER -> <<>>

\* switch (p.property.align)
ParagraphAlign(a) ==
    IF ~IsSome(a) THEN <<>>
    ELSE CASE Val(a) = "center" -> << <<"align", "AlignmentType.Center">> >>
           [] Val(a) = "right" -> << <<"align", "AlignmentType.Right">> >>
           [] Val(a) = "justified" -> << <<"align", "AlignmentType.Justified">> >>
           [] Val(a) = "left" -> << <<"align", "AlignmentType.Left">> >>
           [] Val(a) = "distribute" -> << <<"align", "AlignmentType.Distribute">> >>
           [] Val(a) = "both" -> << <<"align", "AlignmentType.Both">> >>
           [] Val(a) = "end" -> << <<"align", "AlignmentType.End">> >>
           [] OTHER -> <<>>

\* switch (indent.specialIndentKind): kind stays undefined in the other cases.
SpecialIndentKind(k) ==
    IF ~IsSome(k) THEN None
    ELSE CASE Val(k) = "firstLine" -> Some("SpecialIndentKind.FirstLine")
           [] Val(k) = "hanging" -> Some("SpecialIndentKind.Hanging")
           [] OTHER -> None

\* switch (lineSpacing.lineRule): kind stays undefined in the other cases.
LineSpacingType(k) ==
    IF ~IsSome(k) THEN None
    ELSE CASE Val(k) = "atLeast" -> Some("LineSpacingType.AtLeast")
           [] Val(k) = "auto" -> Some("LineSpacingType.Auto")
           [] Val(k) = "exact" -> Some("LineSpacingType.Exact")
           [] OTHER -> None

\* The RunFonts a paragraph or a level builds inline when fonts is set.
buildFontsInline(fonts) ==
    Obj(<<"createRunFonts">>,
        When(TruthyStr(fonts._ascii), <<"ascii", Val(fonts._ascii)>>)
        \o When(TruthyStr(fonts._hiAnsi), <<"hi_ansi", Val(fonts._hiAnsi)>>)
        \o When(TruthyStr(fonts._cs), <<"cs", Val(fonts._cs)>>)
        \o When(TruthyStr(fonts._eastAsia), <<"east_asia", Val(fonts._eastAsia)>>))

\* The property calls of buildParagraph, after the children.
buildParagraphProperty(pp) ==
    ParagraphAlign(pp.align)
    \o When(IsSome(pp.indent),
            <<"indent", Val(pp.indent).left,
              SpecialIndentKind(Val(pp.indent).specialIndentKind),
              Val(pp.indent).specialIndentSize>>)
    \o When(IsSome(pp.numbering),
            <<"numbering", Val(pp.numbering).id, Val(pp.numbering).level>>)
    \o When(IsSome(pp.styleId), <<"style", Val(pp.styleId)>>)
    \o When(pp.runProperty.bold, <<"bold">>)
    \o When(IsSome(pp.lineSpacing),
            <<"line_spacing", Val(pp.lineSpacing).before, Val(pp.lineSpacing).after,
              Val(pp.lineSpacing).line, LineSpacingType(Val(pp.lineSpacing).lineRule)>>)
    \o When(pp.runProperty.italic, <<"italic">>)
    \o When(TruthyNum(pp.runProperty.size), <<"size", Val(pp.runProperty.size)>>)
    \o When(IsSome(pp.runProperty.fonts),
            <<"fonts", buildFontsInline(Val(pp.runProperty.fonts))>>)
    \o When(pp.keepLines, <<"keep_lines", TRUE>>)
    \o When(pp.keepNext, <<"keep_next", TRUE>>)
    \o When(pp.pageBreakBefore, <<"page_break_before", TRUE>>)
    \o When(pp.windowControl, <<"window_control", TRUE>>)

buildParagraph(ref) ==
    Obj(<<"createParagraph">>,
        Flatten([i \in 1..Len(paras[ref].children) |->
                    buildParagraphChild(paras[ref].children[i])])
        \o buildParagraphProperty(paras[ref].property))

-----------------------------------------------------------------------------
(* Tables.                                                                 *)

BorderSlots ==
    <<"top", "right", "bottom", "left", "insideH", "insideV", "tl2br", "tr2bl">>

\* wasm.TableCellBorderPosition of a slot.
TableCellBorderPosition(slot) ==
    CASE slot = "top" -> "TableCellBorderPosition.Top"
      [] slot = "right" -> "TableCellBorderPosition.Right"
      [] slot = "bottom" -> "TableCellBorderPosition.Bottom"
      [] slot = "left" -> "TableCellBorderPosition.Left"
      [] slot = "insideH" -> "TableCellBorderPosition.InsideH"
      [] slot = "insideV" -> "TableCellBorderPosition.InsideV"
      [] slot = "tl2br" -> "TableCellBorderPosition.Tl2br"
      [] slot = "tr2bl" -> "TableCellBorderPosition.Tr2bl"

\* One if-block of buildCellBorders: the border built for a slot that is set.
buildCellBorder(slot, b) ==
    Obj(<<"createTableCellBorder", TableCellBorderPosition(slot)>>,
        << <<"size", b._size>>, <<"color", b._color>>,
           <<"border_type", convertBorderType(b._border_type)>> >>)

\* One if-block of buildCellBorders: if (js.property.borders.<slot>) { ... }
buildCellBorderSlot(borders, slot) ==
    IF IsSome(borders[slot])
    THEN << <<"set_border", buildCellBorder(slot, Val(borders[slot]))>> >>
    ELSE <<>>

\* buildCellBorders with the two diagonals sharing one slot: tl2br is passed
\* only when tr2bl is not set.
buildCellBorders_oneDiagonal(js) ==
    Flatten([i \in 1..Len(BorderSlots) |->
                IF BorderSlots[i] = "tl2br" /\ IsSome(Val(js.property.borders).tr2bl)
                THEN <<>>
                ELSE buildCellBorderSlot(Val(js.property.borders), BorderSlots[i])])

\* The set_border calls buildCellBorders adds to the cell: the slots are
\* visited in the order top, right, bottom, left, insideH, insideV, tl2br, tr2bl.
buildCellBorders(js) ==
    Flatten([i \in 1..Len(BorderSlots) |->
                buildCellBorderSlot(Val(js.property.borders), BorderSlots[i])])

\* The body of c.children.forEach in buildCell.
buildCellChild(child) ==
    CASE child.kind = "Paragraph" ->
            << <<"add_paragraph", buildParagraph(child.ref)>> >>
      [] child.kind = "Table" -> << <<"add_table", buildTable(child.ref)>> >>
      [] OTHER -> <<>>

\* if (verticalMerge === "continue") ... else if (=== "restart") ...
VMergeType(verticalMerge) ==
    IF ~IsSome(verticalMerge) THEN <<>>
    ELSE CASE Val(verticalMerge) = "continue" ->
                  << <<"vertical_merge", "VMergeType.Continue">> >>
           [] Val(verticalMerge) = "restart" ->
                  << <<"vertical_merge", "VMergeType.Restart">> >>
           [] OTHER -> <<>>

\* switch (c.property.verticalAlign)
VAlignType(verticalAlign) ==
    IF ~IsSome(verticalAlign) THEN <<>>
    ELSE CASE Val(verticalAlign) = "top" ->
                  << <<"vertical_align", "VAlignType.Top">> >>
           [] Val(verticalAlign) = "center" ->
                  << <<"vertical_align", "VAlignType.Center">> >>
           [] Val(verticalAlign) = "bottom" ->
                  << <<"vertical_align", "VAlignType.Bottom">> >>
           [] OTHER -> <<>>

buildCell(c) ==
    Obj(<<"createTableCell">>,
        Flatten([i \in 1..Len(c.children) |-> buildCellChild(c.children[i])])
        \o VMergeType(c.property.verticalMerge)
        \o VAlignType(c.property.verticalAlign)
        \o When(IsSome(c.property.gridSpan), <<"grid_span", Val(c.property.gridSpan)>>)
        \o When(IsSome(c.property.width), <<"width", Val(c.property.width)>>)
        \o When(IsSome(c.property.textDirection),
                <<"text_direction",
                  toTextDirectionWasmType(Val(c.property.textDirection))>>)
        \o (IF IsSome(c.property.borders) THEN buildCellBorders(c) ELSE <<>>)
        \o When(IsSome(c.property.shading),
                <<"shading", Val(c.property.shading)._type,
                  Val(c.property.shading)._color, Val(c.property.shading)._fill>>))

\* new Uint32Array(grid): each width is stored modulo 2^32.  The widths of the
\* model are in 0..2^31-1, which the conversion leaves as they are.
Uint32Array(grid) == [i \in 1..Len(grid) |-> grid[i]]

\* if (r.hRule) { switch (r.hRule) ... }
HeightRule(hRule) ==
    IF ~TruthyStr(hRule) THEN <<>>
    ELSE CASE Val(hRule) = "auto" -> << <<"height_rule", "HeightRule.Auto">> >>
           [] Val(hRule) = "atLeast" -> << <<"height_rule", "HeightRule.AtLeast">> >>
           [] Val(hRule) = "exact" -> << <<"height_rule", "HeightRule.Exact">> >>
           [] OTHER -> <<>>

\* The body of t.rows.forEach in buildTable: the row built for one TableRow.
buildRow(r) ==
    Obj(<<"createTableRow">>,
        [i \in 1..Len(r.cells) |-> <<"add_cell", buildCell(r.cells[i])>>]
        \o When(TruthyNum(r.height), <<"row_height", Val(r.height)>>)
        \o HeightRule(r.hRule))

\* buildTable with the rows of the tables nested in a cell added to the outer
\* table after its own rows.
buildTableRows_flat(t) ==
    [i \in 1..Len(t.rows) |-> <<"add_row", buildRow(t.rows[i])>>]
    \o Flatten([i \in 1..Len(t.rows) |->
          Flatten([j \in 1..Len(t.rows[i].cells) |->
             Flatten([k \in 1..Len(t.rows[i].cells[j].children) |->
                IF t.rows[i].cells[j].children[k].kind = "Table"
                THEN [n \in 1..Len(tables[t.rows[i].cells[j].children[k].ref].rows) |->
                        <<"add_row",
                          buildRow(tables[t.rows[i].cells[j].children[k].ref].rows[n])>>]
                ELSE <<>>])])])

\* The add_row calls of buildTable, one per row of the table.
buildTableRows(t) == [i \in 1..Len(t.rows) |-> <<"add_row", buildRow(t.rows[i])>>]

\* if (t.property.cellMargins) { ... }
buildTableCellMargins(cellMargins) ==
    IF IsSome(cellMargins)
    THEN << <<"cell_margin_top", Val(cellMargins).top.val,
              convertWidthType(Val(cellMargins).top.type)>>,
            <<"cell_margin_right", Val(cellMargins).right.val,
              convertWidthType(Val(cellMargins).right.type)>>,
            <<"cell_margin_bottom", Val(cellMargins).bottom.val,
              convertWidthType(Val(cellMargins).bottom.type)>>,
            <<"cell_margin_left", Val(cellMargins).left.val,
              convertWidthType(Val(cellMargins).left.type)>> >>
    ELSE <<>>

\* switch (t.property.align)
TableAlignmentType(align) ==
    IF ~IsSome(align) THEN <<>>
    ELSE CASE Val(align) = "center" -> << <<"align", "TableAlignmentType.Center">> >>
           [] Val(align) = "right" -> << <<"align", "TableAlignmentType.Right">> >>
           [] Val(align) = "left" -> << <<"align", "TableAlignmentType.Left">> >>
           [] OTHER -> <<>>

\* switch (t.property.layout)
TableLayoutType(layout) ==
    IF ~IsSome(layout) THEN <<>>
    ELSE CASE Val(layout) = "fixed" -> << <<"layout", "TableLayoutType.Fixed">> >>
           [] Val(layout) = "autofit" -> << <<"layout", "TableLayoutType.Autofit">> >>
           [] OTHER -> <<>>

buildTable(ref) ==
    Obj(<<"createTable">>,
        buildTableRows(tables[ref])
        \o << <<"set_grid", Uint32Array(tables[ref].grid)>> >>
        \o << <<"indent", IF TruthyNum(tables[ref].property.indent)
                          THEN Val(tables[ref].property.indent) ELSE 0>> >>
        \o buildTableCellMargins(tables[ref].property.cellMargins)
        \o TableAlignmentType(tables[ref].property.align)
        \o TableLayoutType(tables[ref].property.layout))

-----------------------------------------------------------------------------
(* Numbering levels.                                                       *)

\* The level suffix chosen by the if / else if / else of buildLevel.
LevelSuffixType(levelSuffix) ==
    IF ~IsSome(levelSuffix) THEN "LevelSuffixType.Tab"
    ELSE CASE Val(levelSuffix) = "nothing" -> "LevelSuffixType.Nothing"
           [] Val(levelSuffix) = "space" -> "LevelSuffixType.Space"
           [] OTHER -> "LevelSuffixType.Tab"

\* buildLevel that sets the suffix only for a level that has one.
buildLevel_suffixWhenSet(l) ==
    Obj(<<"createLevel", l.id, l.start, l.format, l.text, l.jc>>,
        When(IsSome(l.levelSuffix), <<"suffix", LevelSuffixType(l.levelSuffix)>>)
        \o When(l.runProperty.bold, <<"bold">>)
        \o When(l.runProperty.italic, <<"italic">>)
        \o When(TruthyNum(l.runProperty.size), <<"size", Val(l.runProperty.size)>>)
        \o When(IsSome(l.runProperty.fonts),
                <<"fonts", buildFontsInline(Val(l.runProperty.fonts))>>)
        \o When(IsSome(l.paragraphProperty.indent),
                <<"indent", Val(l.paragraphProperty.indent).left,
                  SpecialIndentKind(Val(l.paragraphProperty.indent).specialIndentKind),
                  Val(l.paragraphProperty.indent).specialIndentSize>>))

buildLevel(l) ==
    Obj(<<"createLevel", l.id, l.start, l.format, l.text, l.jc>>,
        << <<"suffix", LevelSuffixType(l.levelSuffix)>> >>
        \o When(l.runProperty.bold, <<"bold">>)
        \o When(l.runProperty.italic, <<"italic">>)
        \o When(TruthyNum(l.runProperty.size), <<"size", Val(l.runProperty.size)>>)
        \o When(IsSome(l.runProperty.fonts),
                <<"fonts", buildFontsInline(Val(l.runProperty.fonts))>>)
        \o When(IsSome(l.paragraphProperty.indent),
                <<"indent", Val(l.paragraphProperty.indent).left,
                  SpecialIndentKind(Val(l.paragraphProperty.indent).specialIndentKind),
                  Val(l.paragraphProperty.indent).specialIndentSize>>))

-----------------------------------------------------------------------------
(* createDocx, section by section in the order of the code.                *)

\* The body of this.children.forEach.
createDocxChild(child) ==
    CASE child.kind = "Paragraph" ->
            << <<"add_paragraph", buildParagraph(child.ref)>> >>
      [] child.kind = "Table" -> << <<"add_table", buildTable(child.ref)>> >>
      [] child.kind = "BookmarkStart" ->
            << <<"add_bookmark_start", child.id, child.name>> >>
      [] child.kind = "BookmarkEnd" -> << <<"add_bookmark_end", child.id>> >>
      [] OTHER -> <<>>

createDocxChildren ==
    Flatten([i \in 1..Len(children) |-> createDocxChild(children[i])])

\* The body of this.abstractNumberings.forEach.
createAbstractNumbering(n) ==
    Obj(<<"createAbstractNumbering", n.id>>,
        [i \in 1..Len(n.levels) |-> <<"add_level", buildLevel(n.levels[i])>>])

createDocxAbstractNumberings ==
    [i \in 1..Len(abstractNumberings) |->
        <<"add_abstract_numbering", createAbstractNumbering(abstractNumberings[i])>>]

\* createLevelOverride with the start passed only when it is not 0.
createLevelOverride_truthyStart(o) ==
    Obj(<<"createLevelOverride", o.level>>,
        When(TruthyNum(o.startOverride), <<"start", Val(o.startOverride)>>)
        \o When(IsSome(o.levelOverride),
                <<"level",
                  Obj(<<"createLevel", Val(o.levelOverride).level,
                        Val(o.levelOverride).start, Val(o.levelOverride).format,
                        Val(o.levelOverride).text, Val(o.levelOverride).jc>>,
                      <<>>)>>))

\* The body of n.overrides.forEach.
createLevelOverride(o) ==
    Obj(<<"createLevelOverride", o.level>>,
        When(IsSome(o.startOverride), <<"start", Val(o.startOverride)>>)
        \o When(IsSome(o.levelOverride),
                <<"level",
                  Obj(<<"createLevel", Val(o.levelOverride).level,
                        Val(o.levelOverride).start, Val(o.levelOverride).format,
                        Val(o.levelOverride).text, Val(o.levelOverride).jc>>,
                      <<>>)>>))

\* The body of this.numberings.forEach.
createNumbering(n) ==
    Obj(<<"createNumbering", n.id, n.abstractNumId>>,
        [i \in 1..Len(n.overrides) |->
            <<"add_override", createLevelOverride(n.overrides[i])>>])

createDocxNumberings ==
    [i \in 1..Len(numberings) |-> <<"add_numbering", createNumbering(numberings[i])>>]

createDocxSettings ==
    (IF TruthyStr(settings._docId)
     THEN << <<"doc_id", Val(settings._docId)>> >> ELSE <<>>)
    \o << <<"default_tab_stop", settings._defaultTabStop>> >>
    \o [i \in 1..Len(settings._docVars) |->
           <<"add_doc_var", settings._docVars[i].name, settings._docVars[i].val>>]

createDocxPageMargin ==
    IF IsSome(sectionProperty._pageMargin)
    THEN LET m == Val(sectionProperty._pageMargin)
         IN  << <<"page_margin",
                  Obj(<<"createPageMargin">>,
                      << <<"top", m.top>>, <<"left", m.left>>,
                         <<"right", m.right>>, <<"bottom", m.bottom>>,
                         <<"header", m.header>>, <<"footer", m.footer>>,
                         <<"gutter", m.gutter>> >>)>> >>
    ELSE <<>>

\* switch (orient) of the page size section.
PageOrientationType(orient) ==
    IF ~IsSome(orient) THEN <<>>
    ELSE CASE Val(orient) = "landscape" ->
                  << <<"page_orient", "PageOrientationType.Landscape">> >>
           [] Val(orient) = "portrait" ->
                  << <<"page_orient", "PageOrientationType.Portrait">> >>
           [] OTHER -> <<>>

\* createDocx with width and height exchanged for a landscape page.
createDocxPageSize_swap ==
    IF IsSome(sectionProperty._pageSize)
    THEN LET ps == Val(sectionProperty._pageSize)
         IN  (IF ps.orient = Some("landscape")
              THEN << <<"page_size", ps.h, ps.w>> >>
              ELSE << <<"page_size", ps.w, ps.h>> >>)
             \o PageOrientationType(ps.orient)
    ELSE <<>>

createDocxPageSize ==
    IF IsSome(sectionProperty._pageSize)
    THEN LET ps == Val(sectionProperty._pageSize)
         IN  << <<"page_size", ps.w, ps.h>> >> \o PageOrientationType(ps.orient)
    ELSE <<>>

createDocxDocGrid ==
    IF IsSome(sectionProperty._docGrid)
    THEN LET g == Val(sectionProperty._docGrid)
             type == CASE g.gridType = "lines" -> "DocGridType.Lines"
                       [] g.gridType = "linesAndChars" -> "DocGridType.LinesAndChars"
                       [] g.gridType = "snapToChars" -> "DocGridType.SnapToChars"
                       [] OTHER -> "DocGridType.Default"
         IN  << <<"doc_grid", type, g.linePitch, g.charSpace>> >>
    ELSE <<>>

createDocxStyles ==
    IF IsSome(styles.docDefaults)
    THEN LET rp == Val(styles.docDefaults).runProperty
         IN  (IF IsSome(rp) /\ IsSome(Val(rp).fonts)
              THEN << <<"default_fonts", buildRunFonts(Val(rp).fonts)>> >> ELSE <<>>)
             \o (IF IsSome(rp) /\ TruthyNum(Val(rp).size)
                 THEN << <<"default_size", Val(Val(rp).size)>> >> ELSE <<>>)
             \o (IF IsSome(rp) /\ TruthyNum(Val(rp).spacing)
                 THEN << <<"default_spacing", Val(Val(rp).spacing)>> >> ELSE <<>>)
    ELSE <<>>

createDocxDocProps ==
    LET updated == IF TruthyStr(docProps._updatedAt)
                   THEN << <<"updated_at", Val(docProps._updatedAt)>> >> ELSE <<>>
    IN  (IF TruthyStr(docProps._createdAt)
         THEN << <<"created_at", Val(docProps._createdAt)>> >> ELSE <<>>)
        \o updated
        \o [i \in 1..Len(docProps._customProperties) |->
               <<"custom_property", docProps._customProperties[i][1],
                 docProps._customProperties[i][2]>>]
        \o updated

\* The body of for (const e of this.webextensions).
createWebExtension(e) ==
    Obj(<<"createWebExtension", e._id, e._referenceId, e._version, e._store,
          e._storeType>>,
        [i \in 1..Len(e.properties) |->
            <<"property", e.properties[i][1], e.properties[i][2]>>])

\* createDocx with the task-pane block not guarded by this._taskpanes.
createDocxTaskpanes_always ==
    << <<"taskpanes">> >>
    \o [i \in 1..Len(webextensions) |->
           <<"web_extension", createWebExtension(webextensions[i])>>]

createDocxTaskpanes ==
    IF _taskpanes
    THEN << <<"taskpanes">> >>
         \o [i \in 1..Len(webextensions) |->
                <<"web_extension", createWebExtension(webextensions[i])>>]
    ELSE <<>>

\* createDocx with the custom items passed only when task panes are enabled.
createDocxCustomItems_withTaskpanes ==
    IF _taskpanes
    THEN [i \in 1..Len(customItems) |->
             <<"add_custom_item", customItems[i].id, customItems[i].xml>>]
    ELSE <<>>

createDocxCustomItems ==
    [i \in 1..Len(customItems) |->
        <<"add_custom_item", customItems[i].id, customItems[i].xml>>]

createDocx ==
    Obj(<<"createDocx">>,
        createDocxChildren \o createDocxAbstractNumberings
        \o createDocxNumberings \o createDocxSettings \o createDocxPageMargin
        \o createDocxPageSize \o createDocxDocGrid \o createDocxStyles
        \o createDocxDocProps \o createDocxTaskpanes \o createDocxCustomItems)

-----------------------------------------------------------------------------
(* The wasm engine behind docx.build and docx.json_with_update_comments,   *)
(* as the specification describes it: it works from the calls it received. *)

\* The abstract numbering ids the engine was given.
EngineAbstractNumIds(docx) ==
    {docx.calls[i][2].ctor[2] :
        i \in {j \in 1..Len(docx.calls) : Fn(docx.calls[j]) = "add_abstract_numbering"}}

\* An engine that checks no reference.
EngineFailedChecks_none(docx) == {}

\* The referential checks of the specification that the engine's build fails:
\* a numbering whose abstractNumId is the id of no abstract numbering.
EngineFailedChecks(docx) ==
    {"abstractNumId" : i \in {j \in 1..Len(docx.calls) :
                               /\ Fn(docx.calls[j]) = "add_numbering"
                               /\ docx.calls[j][2].ctor[3] \notin EngineAbstractNumIds(docx)}}

\* The calls of an engine object that add a node below it.
EngineNodes(e) ==
    SelectSeq(e.calls,
              LAMBDA c : Fn(c) \in {"add_paragraph", "add_table", "add_row", "add_cell"})

RECURSIVE EngineUsesNumbering(_)
\* Some paragraph of the tree under engine object e is bound to a numbering.
EngineUsesNumbering(e) ==
    \/ \E i \in 1..Len(e.calls) : Fn(e.calls[i]) = "numbering"
    \/ \E i \in 1..Len(EngineNodes(e)) : EngineUsesNumbering(EngineNodes(e)[i][2])

\* The body of the document the engine was given.
EngineBody(docx) ==
    SelectSeq(docx.calls,
              LAMBDA c : Fn(c) \in {"add_paragraph", "add_table", "add_bookmark_start",
                                    "add_bookmark_end"})

\* The numbering definitions the engine was given.
EngineNumberings(docx) ==
    SelectSeq(docx.calls,
              LAMBDA c : Fn(c) \in {"add_abstract_numbering", "add_numbering"})

\* The package the engine's build returns, as its parts by name: the main
\* document part always, the numbering part when the caller asks for it.
EnginePackage(docx, withNumbering) ==
    [part \in {"word/document.xml"} \cup
              (IF withNumbering THEN {"word/numbering.xml"} ELSE {}) |->
        IF part = "word/document.xml" THEN EngineBody(docx) ELSE EngineNumberings(docx)]

\* wasm.readDocx and JSON.parse: the model read back from a package; the field
\* of an optional part that is missing is omitted.
EngineReadDocx(package) ==
    [document |-> package["word/document.xml"],
     numberings |-> IF "word/numbering.xml" \in DOMAIN package
                    THEN Some(package["word/numbering.xml"]) ELSE None]

\* json_with_update_comments and JSON.parse: the logical shape of the document
\* the engine holds; the numbering definitions are in it when a node uses
\* numbering.
EngineJson(docx) ==
    [document |-> EngineBody(docx),
     numberings |-> IF EngineUsesNumbering(docx)
                    THEN Some(EngineNumberings(docx)) ELSE None]

-----------------------------------------------------------------------------
(* The node classes of ./paragraph, ./run, ./table, ... as the builder     *)
(* reads them.                                                             *)

Paragraph0 ==
    [hasNumberings |-> FALSE, children |-> <<>>,
     property |-> [align |-> None, indent |-> None, numbering |-> None,
                   styleId |-> None,
                   runProperty |-> [bold |-> FALSE, italic |-> FALSE,
                                    size |-> None, fonts |-> None],
                   lineSpacing |-> None, keepLines |-> FALSE, keepNext |-> FALSE,
                   pageBreakBefore |-> FALSE, windowControl |-> FALSE]]

RunProperty0 ==
    [size |-> None, color |-> None, highlight |-> None, vertAlign |-> None,
     bold |-> FALSE, italic |-> FALSE, underline |-> None, vanish |-> FALSE,
     spacing |-> None, textBorder |-> None, fonts |-> None]

Run(cs) == [kind |-> "Run", children |-> cs, property |-> RunProperty0]

Text(t) == [kind |-> "Text", text |-> t]

DeleteText(t) == [kind |-> "DeleteText", text |-> t]

Tab == [kind |-> "Tab"]

Break(t) == [kind |-> "Break", type |-> t]

BookmarkStart(id, name) == [kind |-> "BookmarkStart", id |-> id, name |-> name]

BookmarkEnd(id) == [kind |-> "BookmarkEnd", id |-> id]

\* new Comment(id)
Comment(id) ==
    [kind |-> "Comment", id |-> id, children |-> <<>>, _author |-> None,
     _date |-> None, _parentCommentId |-> None]

\* new CommentEnd(id)
CommentEnd(id) == [kind |-> "CommentEnd", id |-> id]

ParagraphRef(p) == [kind |-> "Paragraph", ref |-> p]

TableRef(t) == [kind |-> "Table", ref |-> t]

Borders0 ==
    [top |-> None, right |-> None, bottom |-> None, left |-> None,
     insideH |-> None, insideV |-> None, tl2br |-> None, tr2bl |-> None]

TableCell0 ==
    [children |-> <<>>, hasNumberings |-> FALSE,
     property |-> [verticalMerge |-> None, verticalAlign |-> None,
                   gridSpan |-> None, width |-> None, textDirection |-> None,
                   borders |-> None, shading |-> None]]

TableRow0 == [cells |-> <<>>, hasNumberings |-> FALSE, height |-> None, hRule |-> None]

Table0 ==
    [hasNumberings |-> FALSE, rows |-> <<>>, grid |-> <<>>,
     property |-> [indent |-> None, cellMargins |-> None, align |-> None,
                   layout |-> None]]

TableCellBorder(size, color, type) ==
    [_size |-> size, _color |-> color, _border_type |-> type]

Level(id, start, format, text, jc) ==
    [id |-> id, start |-> start, format |-> format, text |-> text, jc |-> jc,
     levelSuffix |-> None,
     runProperty |-> [bold |-> FALSE, italic |-> FALSE, size |-> None, fonts |-> None],
     paragraphProperty |-> [indent |-> None]]

\* LevelOverride.overrideLevel(level): the replacement kept under levelOverride.
OverrideLevel(l) ==
    [level |-> l.id, start |-> l.start, format |-> l.format, text |-> l.text,
     jc |-> l.jc, levelSuffix |-> l.levelSuffix, runProperty |-> l.runProperty,
     paragraphProperty |-> l.paragraphProperty]

LevelOverride(level, startOverride, levelOverride) ==
    [level |-> level, startOverride |-> startOverride, levelOverride |-> levelOverride]

Numbering(id, abstractNumId, overrides) ==
    [id |-> id, abstractNumId |-> abstractNumId, overrides |-> overrides]

AbstractNumbering(id, levels) == [id |-> id, levels |-> levels]

WebExtension(id, referenceId, version, store, storeType, properties) ==
    [_id |-> id, _referenceId |-> referenceId, _version |-> version,
     _store |-> store, _storeType |-> storeType, properties |-> properties]

\* obj[key] = value on a plain object, kept as its Object.entries: a key that
\* is there keeps its place, a new key goes last.
ObjectSet(entries, key, value) ==
    IF \E i \in 1..Len(entries) : entries[i][1] = key
    THEN [i \in 1..Len(entries) |->
             IF entries[i][1] = key THEN <<key, value>> ELSE entries[i]]
    ELSE Append(entries, <<key, value>>)

RECURSIVE TableReaches(_, _)
\* Table t is table u or holds it in a cell, at any depth.
TableReaches(t, u) ==
    \/ t = u
    \/ \E i \in 1..Len(tables[t].rows) :
         \E j \in 1..Len(tables[t].rows[i].cells) :
           \E k \in 1..Len(tables[t].rows[i].cells[j].children) :
             LET c == tables[t].rows[i].cells[j].children[k]
             IN  c.kind = "Table" /\ TableReaches(c.ref, u)

-----------------------------------------------------------------------------
(* The initial state: new Docx(), no node made yet.                        *)

\* What a call that returns this, or a constructor, leaves as the last call;
\* the op of a call on a node, which is no call on the Docx, is "node".
Ret(op) == [op |-> op, arg |-> None, docx |-> None, value |-> None, error |-> None]

Conv0 == [fn |-> "none", arg |-> "", result |-> ""]

\* The fields of a Docx after new Docx().
Docx0 ==
    [children |-> <<>>, hasNumberings |-> FALSE, abstractNumberings |-> <<>>,
     numberings |-> <<>>,
     settings |-> [_docId |-> None, _defaultTabStop |-> 840, _docVars |-> <<>>],
     docProps |-> [_createdAt |-> None, _updatedAt |-> None,
                   _customProperties |-> <<>>],
     sectionProperty |-> [_pageSize |-> None, _pageMargin |-> None, _docGrid |-> None],
     _taskpanes |-> FALSE, webextensions |-> <<>>, customItems |-> <<>>,
     styles |-> [docDefaults |->
                    Some([runProperty |->
                             Some([fonts |-> None, size |-> None, spacing |-> None])])]]

InitDocx ==
    /\ this = 1
    /\ other = Docx0
    /\ paras = <<>>
    /\ tables = <<>>
    /\ cell = TableCell0
    /\ row = TableRow0
    /\ children = <<>>
    /\ hasNumberings = FALSE
    /\ abstractNumberings = <<>>
    /\ numberings = <<>>
    /\ settings = [_docId |-> None, _defaultTabStop |-> 840, _docVars |-> <<>>]
    /\ docProps = [_createdAt |-> None, _updatedAt |-> None,
                   _customProperties |-> <<>>]
    /\ sectionProperty = [_pageSize |-> None, _pageMargin |-> None, _docGrid |-> None]
    /\ _taskpanes = FALSE
    /\ webextensions = <<>>
    /\ customItems = <<>>
    /\ styles = [docDefaults |->
                    Some([runProperty |->
                             Some([fonts |-> None, size |-> None, spacing |-> None])])]
    /\ ret = Ret("new Docx")

Init == InitDocx /\ conv = Conv0

-----------------------------------------------------------------------------
(* The caller composing nodes: the methods of Paragraph, TableCell,        *)
(* TableRow and Table.                                                     *)

\* new Paragraph()
newParagraph ==
    /\ Len(paras) < MaxParas
    /\ paras' = Append(paras, Paragraph0)
    /\ ret' = Ret("node")
    /\ UNCHANGED <<tables, cell, row, docxVars, conv, this, other>>

\* p.addRun(run), p.addInsert(i), p.addBookmarkStart(..), ...: push a child.
Paragraph_addChild(p, child) ==
    /\ Len(paras[p].children) < MaxParagraphChildren
    /\ paras' = [paras EXCEPT ![p].children = Append(@, child)]
    /\ ret' = Ret("node")
    /\ UNCHANGED <<tables, cell, row, docxVars, conv, this, other>>

\* p.numbering(id, level)
Paragraph_numbering(p, id, level) ==
    /\ paras' = [paras EXCEPT ![p].hasNumberings = TRUE,
                              ![p].property.numbering = Some([id |-> id, level |-> level])]
    /\ ret' = Ret("node")
    /\ UNCHANGED <<tables, cell, row, docxVars, conv, this, other>>

\* p.size(n)
Paragraph_size(p, n) ==
    /\ paras' = [paras EXCEPT ![p].property.runProperty.size = Some(n)]
    /\ ret' = Ret("node")
    /\ UNCHANGED <<tables, cell, row, docxVars, conv, this, other>>

\* cell.addParagraph(p) on the cell being composed
TableCell_addParagraph(p) ==
    /\ Len(cell.children) < MaxCellChildren
    /\ cell' = [cell EXCEPT !.children = Append(@, ParagraphRef(p)),
                            !.hasNumberings = @ \/ paras[p].hasNumberings]
    /\ ret' = Ret("node")
    /\ UNCHANGED <<paras, tables, row, docxVars, conv, this, other>>

\* cell.addTable(t) on the cell being composed
TableCell_addTable(t) ==
    /\ Len(cell.children) < MaxCellChildren
    /\ cell' = [cell EXCEPT !.children = Append(@, TableRef(t)),
                            !.hasNumberings = @ \/ tables[t].hasNumberings]
    /\ ret' = Ret("node")
    /\ UNCHANGED <<paras, tables, row, docxVars, conv, this, other>>

\* cell.setBorder(border) on the cell being composed: border.position is the slot
TableCell_setBorder(slot, border) ==
    /\ cell' = [cell EXCEPT !.property.borders =
                   Some([(IF IsSome(@) THEN Val(@) ELSE Borders0)
                            EXCEPT ![slot] = Some(border)])]
    /\ ret' = Ret("node")
    /\ UNCHANGED <<paras, tables, row, docxVars, conv, this, other>>

\* cell.gridSpan(n) on the cell being composed
TableCell_gridSpan(n) ==
    /\ cell' = [cell EXCEPT !.property.gridSpan = Some(n)]
    /\ ret' = Ret("node")
    /\ UNCHANGED <<paras, tables, row, docxVars, conv, this, other>>

\* row.addCell(cell): the composed cell goes into the row being composed
TableRow_addCell ==
    /\ Len(row.cells) < MaxCells
    /\ row' = [row EXCEPT !.cells = Append(@, cell),
                          !.hasNumberings = @ \/ cell.hasNumberings]
    /\ cell' = TableCell0
    /\ ret' = Ret("node")
    /\ UNCHANGED <<paras, tables, docxVars, conv, this, other>>

\* row.rowHeight(n) on the row being composed
TableRow_rowHeight(n) ==
    /\ row' = [row EXCEPT !.height = Some(n)]
    /\ ret' = Ret("node")
    /\ UNCHANGED <<paras, tables, cell, docxVars, conv, this, other>>

\* new Table()
newTable ==
    /\ Len(tables) < MaxTables
    /\ tables' = Append(tables, Table0)
    /\ ret' = Ret("node")
    /\ UNCHANGED <<paras, cell, row, docxVars, conv, this, other>>

\* t.addRow(row): the composed row goes into table t, which may already be in
\* the document or in a cell.  A table is never put inside itself.
Table_addRow(t) ==
    /\ Len(tables[t].rows) < MaxRows
    /\ Len(row.cells) > 0
    /\ \A j \in 1..Len(row.cells) : \A k \in 1..Len(row.cells[j].children) :
          row.cells[j].children[k].kind = "Table"
             => ~TableReaches(row.cells[j].children[k].ref, t)
    /\ tables' = [tables EXCEPT ![t].rows = Append(@, row),
                                ![t].hasNumberings = @ \/ row.hasNumberings]
    /\ row' = TableRow0
    /\ ret' = Ret("node")
    /\ UNCHANGED <<paras, cell, docxVars, conv, this, other>>

\* t.setGrid(grid)
Table_setGrid(t, grid) ==
    /\ tables' = [tables EXCEPT ![t].grid = grid]
    /\ ret' = Ret("node")
    /\ UNCHANGED <<paras, cell, row, docxVars, conv, this, other>>

-----------------------------------------------------------------------------
(* The methods of Docx.                                                    *)

addParagraph(p) ==
    /\ Len(children) < MaxChildren
    /\ hasNumberings' = (IF paras[p].hasNumberings THEN TRUE ELSE hasNumberings)
    /\ children' = Append(children, ParagraphRef(p))
    /\ ret' = Ret("addParagraph")
    /\ UNCHANGED <<paras, tables, cell, row, abstractNumberings, numberings, settings,
                   docProps, sectionProperty, _taskpanes, webextensions, customItems,
                   styles, conv, this, other>>

addBookmarkStart(id, name) ==
    /\ Len(children) < MaxChildren
    /\ children' = Append(children, BookmarkStart(id, name))
    /\ ret' = Ret("addBookmarkStart")
    /\ UNCHANGED <<paras, tables, cell, row, hasNumberings, abstractNumberings,
                   numberings, settings, docProps, sectionProperty, _taskpanes,
                   webextensions, customItems, styles, conv, this, other>>

\* addBookmarkEnd that puts the bookmark end before the children already added.
addBookmarkEnd_unshift(id) ==
    /\ Len(children) < MaxChildren
    /\ children' = <<BookmarkEnd(id)>> \o children
    /\ ret' = Ret("addBookmarkEnd")
    /\ UNCHANGED <<paras, tables, cell, row, hasNumberings, abstractNumberings,
                   numberings, settings, docProps, sectionProperty, _taskpanes,
                   webextensions, customItems, styles, conv, this, other>>

addBookmarkEnd(id) ==
    /\ Len(children) < MaxChildren
    /\ children' = Append(children, BookmarkEnd(id))
    /\ ret' = Ret("addBookmarkEnd")
    /\ UNCHANGED <<paras, tables, cell, row, hasNumberings, abstractNumberings,
                   numberings, settings, docProps, sectionProperty, _taskpanes,
                   webextensions, customItems, styles, conv, this, other>>

\* addTable that assigns the table's flag to the document's.
addTable_assignsFlag(t) ==
    /\ Len(children) < MaxChildren
    /\ hasNumberings' = tables[t].hasNumberings
    /\ children' = Append(children, TableRef(t))
    /\ ret' = Ret("addTable")
    /\ UNCHANGED <<paras, tables, cell, row, abstractNumberings, numberings, settings,
                   docProps, sectionProperty, _taskpanes, webextensions, customItems,
                   styles, conv, this, other>>

addTable(t) ==
    /\ Len(children) < MaxChildren
    /\ hasNumberings' = (IF tables[t].hasNumberings THEN TRUE ELSE hasNumberings)
    /\ children' = Append(children, TableRef(t))
    /\ ret' = Ret("addTable")
    /\ UNCHANGED <<paras, tables, cell, row, abstractNumberings, numberings, settings,
                   docProps, sectionProperty, _taskpanes, webextensions, customItems,
                   styles, conv, this, other>>

addAbstractNumbering(num) ==
    /\ Len(abstractNumberings) < MaxNumberings
    /\ abstractNumberings' = Append(abstractNumberings, num)
    /\ ret' = Ret("addAbstractNumbering")
    /\ UNCHANGED <<paras, tables, cell, row, children, hasNumberings, numberings,
                   settings, docProps, sectionProperty, _taskpanes, webextensions,
                   customItems, styles, conv, this, other>>

addNumbering(num) ==
    /\ Len(numberings) < MaxNumberings
    /\ numberings' = Append(numberings, num)
    /\ ret' = Ret("addNumbering")
    /\ UNCHANGED <<paras, tables, cell, row, children, hasNumberings,
                   abstractNumberings, settings, docProps, sectionProperty,
                   _taskpanes, webextensions, customItems, styles, conv, this, other>>

docId(id) ==
    /\ settings' = [settings EXCEPT !._docId = Some(id)]
    /\ ret' = Ret("docId")
    /\ UNCHANGED <<paras, tables, cell, row, children, hasNumberings,
                   abstractNumberings, numberings, docProps, sectionProperty,
                   _taskpanes, webextensions, customItems, styles, conv, this, other>>

defaultTabStop(stop) ==
    /\ settings' = [settings EXCEPT !._defaultTabStop = stop]
    /\ ret' = Ret("defaultTabStop")
    /\ UNCHANGED <<paras, tables, cell, row, children, hasNumberings,
                   abstractNumberings, numberings, docProps, sectionProperty,
                   _taskpanes, webextensions, customItems, styles, conv, this, other>>

createdAt(date) ==
    /\ docProps' = [docProps EXCEPT !._createdAt = Some(date)]
    /\ ret' = Ret("createdAt")
    /\ UNCHANGED <<paras, tables, cell, row, children, hasNumberings,
                   abstractNumberings, numberings, settings, sectionProperty,
                   _taskpanes, webextensions, customItems, styles, conv, this, other>>

customProperty(name, item) ==
    /\ docProps' = [docProps EXCEPT !._customProperties = ObjectSet(@, name, item)]
    /\ ret' = Ret("customProperty")
    /\ UNCHANGED <<paras, tables, cell, row, children, hasNumberings,
                   abstractNumberings, numberings, settings, sectionProperty,
                   _taskpanes, webextensions, customItems, styles, conv, this, other>>

updatedAt(date) ==
    /\ docProps' = [docProps EXCEPT !._updatedAt = Some(date)]
    /\ ret' = Ret("updatedAt")
    /\ UNCHANGED <<paras, tables, cell, row, children, hasNumberings,
                   abstractNumberings, numberings, settings, sectionProperty,
                   _taskpanes, webextensions, customItems, styles, conv, this, other>>

addDocVar(name, val) ==
    /\ Len(settings._docVars) < MaxItems
    /\ settings' = [settings EXCEPT !._docVars = Append(@, [name |-> name, val |-> val])]
    /\ ret' = Ret("addDocVar")
    /\ UNCHANGED <<paras, tables, cell, row, children, hasNumberings,
                   abstractNumberings, numberings, docProps, sectionProperty,
                   _taskpanes, webextensions, customItems, styles, conv, this, other>>

\* SectionProperty.pageSize(w, h): the orientation already set is kept.
pageSize(w, h) ==
    /\ sectionProperty' =
          [sectionProperty EXCEPT !._pageSize =
              Some([w |-> Some(w), h |-> Some(h),
                    orient |-> IF IsSome(@) THEN Val(@).orient ELSE None])]
    /\ ret' = Ret("pageSize")
    /\ UNCHANGED <<paras, tables, cell, row, children, hasNumberings,
                   abstractNumberings, numberings, settings, docProps, _taskpanes,
                   webextensions, customItems, styles, conv, this, other>>

\* SectionProperty.pageMargin(margin): the sides not given keep their default.
pageMargin(margin) ==
    /\ sectionProperty' = [sectionProperty EXCEPT !._pageMargin = Some(margin)]
    /\ ret' = Ret("pageMargin")
    /\ UNCHANGED <<paras, tables, cell, row, children, hasNumberings,
                   abstractNumberings, numberings, settings, docProps, _taskpanes,
                   webextensions, customItems, styles, conv, this, other>>

\* SectionProperty.pageOrientation(o): the size already set is kept.
pageOrientation(o) ==
    /\ sectionProperty' =
          [sectionProperty EXCEPT !._pageSize =
              Some([w |-> IF IsSome(@) THEN Val(@).w ELSE None,
                    h |-> IF IsSome(@) THEN Val(@).h ELSE None,
                    orient |-> Some(o)])]
    /\ ret' = Ret("pageOrientation")
    /\ UNCHANGED <<paras, tables, cell, row, children, hasNumberings,
                   abstractNumberings, numberings, settings, docProps, _taskpanes,
                   webextensions, customItems, styles, conv, this, other>>

docGrid(type, linePitch, charSpace) ==
    /\ sectionProperty' =
          [sectionProperty EXCEPT !._docGrid =
              Some([gridType |-> type, linePitch |-> linePitch,
                    charSpace |-> charSpace])]
    /\ ret' = Ret("docGrid")
    /\ UNCHANGED <<paras, tables, cell, row, children, hasNumberings,
                   abstractNumberings, numberings, settings, docProps, _taskpanes,
                   webextensions, customItems, styles, conv, this, other>>

\* Styles.defaultSize(size)
defaultSize(size) ==
    /\ styles' = [docDefaults |->
                     Some([runProperty |->
                              Some([Val(Val(styles.docDefaults).runProperty)
                                       EXCEPT !.size = Some(size)])])]
    /\ ret' = Ret("defaultSize")
    /\ UNCHANGED <<paras, tables, cell, row, children, hasNumberings,
                   abstractNumberings, numberings, settings, docProps,
                   sectionProperty, _taskpanes, webextensions, customItems, conv, this, other>>

\* Styles.defaultFonts(fonts)
defaultFonts(fonts) ==
    /\ styles' = [docDefaults |->
                     Some([runProperty |->
                              Some([Val(Val(styles.docDefaults).runProperty)
                                       EXCEPT !.fonts = Some(fonts)])])]
    /\ ret' = Ret("defaultFonts")
    /\ UNCHANGED <<paras, tables, cell, row, children, hasNumberings,
                   abstractNumberings, numberings, settings, docProps,
                   sectionProperty, _taskpanes, webextensions, customItems, conv, this, other>>

\* Styles.defaultSpacing(spacing)
defaultSpacing(spacing) ==
    /\ styles' = [docDefaults |->
                     Some([runProperty |->
                              Some([Val(Val(styles.docDefaults).runProperty)
                                       EXCEPT !.spacing = Some(spacing)])])]
    /\ ret' = Ret("defaultSpacing")
    /\ UNCHANGED <<paras, tables, cell, row, children, hasNumberings,
                   abstractNumberings, numberings, settings, docProps,
                   sectionProperty, _taskpanes, webextensions, customItems, conv, this, other>>

taskpanes ==
    /\ _taskpanes' = TRUE
    /\ ret' = Ret("taskpanes")
    /\ UNCHANGED <<paras, tables, cell, row, children, hasNumberings,
                   abstractNumberings, numberings, settings, docProps,
                   sectionProperty, webextensions, customItems, styles, conv, this, other>>

webextension(e) ==
    /\ Len(webextensions) < MaxExtensions
    /\ webextensions' = Append(webextensions, e)
    /\ ret' = Ret("webextension")
    /\ UNCHANGED <<paras, tables, cell, row, children, hasNumberings,
                   abstractNumberings, numberings, settings, docProps,
                   sectionProperty, _taskpanes, customItems, styles, conv, this, other>>

\* addCustomItem on a customItems array that both instances hold.
addCustomItem_shared(id, xml) ==
    /\ Len(customItems) < MaxItems
    /\ customItems' = Append(customItems, [id |-> id, xml |-> xml])
    /\ other' = [other EXCEPT !.customItems = Append(@, [id |-> id, xml |-> xml])]
    /\ ret' = Ret("addCustomItem")
    /\ UNCHANGED <<paras, tables, cell, row, children, hasNumberings,
                   abstractNumberings, numberings, settings, docProps,
                   sectionProperty, _taskpanes, webextensions, styles, conv, this>>

addCustomItem(id, xml) ==
    /\ Len(customItems) < MaxItems
    /\ customItems' = Append(customItems, [id |-> id, xml |-> xml])
    /\ ret' = Ret("addCustomItem")
    /\ UNCHANGED <<paras, tables, cell, row, children, hasNumberings,
                   abstractNumberings, numberings, settings, docProps,
                   sectionProperty, _taskpanes, webextensions, styles, conv, this, other>>

\* json(): createDocx, json_with_update_comments, free, JSON.parse.
json ==
    /\ ret' = [op |-> "json", arg |-> None,
               docx |-> Some(Obj(createDocx.ctor,
                                 createDocx.calls
                                 \o << <<"json_with_update_comments">>, <<"free">> >>)),
               value |-> Some(EngineJson(createDocx)), error |-> None]
    /\ UNCHANGED <<paras, tables, cell, row, docxVars, conv, this, other>>

\* The argument build() gives docx.build.
buildArgument == hasNumberings

\* build() that also clears the task-pane flag once the package is made.
build_clearsTaskpanes ==
    /\ ret' = [op |-> "build", arg |-> None,
               docx |-> Some(Obj(createDocx.ctor,
                                 createDocx.calls
                                 \o << <<"build", buildArgument>>, <<"free">> >>)),
               value |-> Some(EnginePackage(createDocx, buildArgument)),
               error |-> None]
    /\ _taskpanes' = FALSE
    /\ UNCHANGED <<paras, tables, cell, row, children, hasNumberings,
                   abstractNumberings, numberings, settings, docProps,
                   sectionProperty, webextensions, customItems, styles, conv, this, other>>

\* build(): createDocx, docx.build(this.hasNumberings), free.  A failure of the
\* engine's build leaves build() at that call: nothing is freed or returned.
build ==
    /\ ret' = IF EngineFailedChecks(createDocx) = {}
              THEN [op |-> "build", arg |-> None,
                    docx |-> Some(Obj(createDocx.ctor,
                                      createDocx.calls
                                      \o << <<"build", buildArgument>>, <<"free">> >>)),
                    value |-> Some(EnginePackage(createDocx, buildArgument)),
                    error |-> None]
              ELSE [op |-> "build", arg |-> None,
                    docx |-> Some(Obj(createDocx.ctor,
                                      createDocx.calls
                                      \o << <<"build", buildArgument>> >>)),
                    value |-> None,
                    error |-> Some([name |-> "ValidationError",
                                    checks |-> EngineFailedChecks(createDocx)])]
    /\ UNCHANGED <<paras, tables, cell, row, docxVars, conv, this, other>>

\* readDocx(buf) on the bytes the last build() returned.
readDocx ==
    /\ ret.op = "build"
    /\ ret.value # None
    /\ ret' = [op |-> "readDocx", arg |-> ret.value, docx |-> None,
               value |-> Some(EngineReadDocx(Val(ret.value))), error |-> None]
    /\ UNCHANGED <<paras, tables, cell, row, docxVars, conv, this, other>>

\* The caller turns to its other Docx instance: no call is made, the next
\* calls go to the other instance.
turn ==
    /\ this' = 3 - this
    /\ other' = [children |-> children, hasNumberings |-> hasNumberings,
                 abstractNumberings |-> abstractNumberings, numberings |-> numberings,
                 settings |-> settings, docProps |-> docProps,
                 sectionProperty |-> sectionProperty, _taskpanes |-> _taskpanes,
                 webextensions |-> webextensions, customItems |-> customItems,
                 styles |-> styles]
    /\ children' = other.children
    /\ hasNumberings' = other.hasNumberings
    /\ abstractNumberings' = other.abstractNumberings
    /\ numberings' = other.numberings
    /\ settings' = other.settings
    /\ docProps' = other.docProps
    /\ sectionProperty' = other.sectionProperty
    /\ _taskpanes' = other._taskpanes
    /\ webextensions' = other.webextensions
    /\ customItems' = other.customItems
    /\ styles' = other.styles
    /\ ret' = Ret("turn")
    /\ UNCHANGED <<paras, tables, cell, row, conv>>

\* docx.buildLevel(l): the engine level it returns.
Docx_buildLevel(l) ==
    /\ ret' = [op |-> "buildLevel", arg |-> Some(l), docx |-> None,
               value |-> Some(buildLevel(l)), error |-> None]
    /\ UNCHANGED <<paras, tables, cell, row, docxVars, conv, this, other>>

\* docx.buildComment(c): the engine comment it returns.
Docx_buildComment(c) ==
    /\ ret' = [op |-> "buildComment", arg |-> Some(c), docx |-> None,
               value |-> Some(buildComment(c)), error |-> None]
    /\ UNCHANGED <<paras, tables, cell, row, docxVars, conv, this, other>>

\* docx.buildCell(cell) on the cell being composed: the engine cell it returns.
Docx_buildCell ==
    /\ ret' = [op |-> "buildCell", arg |-> None, docx |-> None,
               value |-> Some(buildCell(cell)), error |-> None]
    /\ UNCHANGED <<paras, tables, cell, row, docxVars, conv, this, other>>

\* docx.buildTable(t): the engine table it returns.
Docx_buildTable(t) ==
    /\ ret' = [op |-> "buildTable", arg |-> Some(t), docx |-> None,
               value |-> Some(buildTable(t)), error |-> None]
    /\ UNCHANGED <<paras, tables, cell, row, docxVars, conv, this, other>>

\* convertBorderType(conv.arg), once per behaviour
applyConvertBorderType ==
    /\ conv.fn = "none"
    /\ conv' = [fn |-> "convertBorderType", arg |-> conv.arg,
                result |-> convertBorderType(conv.arg)]
    /\ UNCHANGED <<paras, tables, cell, row, docxVars, ret, this, other>>

\* convertWidthType(conv.arg), once per behaviour
applyConvertWidthType ==
    /\ conv.fn = "none"
    /\ conv' = [fn |-> "convertWidthType", arg |-> conv.arg,
                result |-> convertWidthType(conv.arg)]
    /\ UNCHANGED <<paras, tables, cell, row, docxVars, ret, this, other>>

-----------------------------------------------------------------------------
(* SpecHasNumberings: paragraphs and tables, numbered before or after they *)
(* are added, and build.                                                   *)

NextHasNumberings ==
    \/ newParagraph
    \/ \E p \in 1..Len(paras) : Paragraph_numbering(p, 0, 0)
    \/ \E p \in 1..Len(paras) : Len(cell.children) = 0 /\ TableCell_addParagraph(p)
    \/ TableRow_addCell
    \/ Len(tables) = 0 /\ newTable
    \/ \E t \in 1..Len(tables) : Table_addRow(t)
    \/ \E p \in 1..Len(paras) : addParagraph(p)
    \/ \E t \in 1..Len(tables) : addTable(t)
    \/ addAbstractNumbering(AbstractNumbering(0, <<>>))
    \/ addNumbering(Numbering(0, 0, <<>>))
    \/ build

SpecHasNumberings == Init /\ [][NextHasNumberings]_vars

\* The argument of the build call the engine received in the last build().
BuildCalls == SelectSeq(Val(ret.docx).calls, LAMBDA c : Fn(c) = "build")

RECURSIVE TableUsesNumbering(_)
\* Some paragraph in a cell of table t, at any depth, has a numbering.
TableUsesNumbering(t) ==
    \E i \in 1..Len(tables[t].rows) :
      \E j \in 1..Len(tables[t].rows[i].cells) :
        \E k \in 1..Len(tables[t].rows[i].cells[j].children) :
          LET c == tables[t].rows[i].cells[j].children[k]
          IN  \/ c.kind = "Paragraph" /\ IsSome(paras[c.ref].property.numbering)
              \/ c.kind = "Table" /\ TableUsesNumbering(c.ref)

\* A paragraph or table among the document's children uses numbering.
ChildUsesNumbering ==
    \E i \in 1..Len(children) :
       \/ /\ children[i].kind = "Paragraph"
          /\ IsSome(paras[children[i].ref].property.numbering)
       \/ children[i].kind = "Table" /\ TableUsesNumbering(children[i].ref)

\* C1: build() passes hasNumberings = true to the engine exactly when, at the
\* time of build, a paragraph or table among the children uses numbering.
C1_BuildFlagIffNumberingUsed ==
    ret.op = "build" =>
       /\ Len(BuildCalls) = 1
       /\ BuildCalls[1][2] = ChildUsesNumbering

-----------------------------------------------------------------------------
(* SpecNumbering: abstract numberings and numberings with level overrides, *)
(* and build.                                                              *)

\* The Level the caller replaces level 1 with.
ReplacementLevel == Level(1, 3, "decimal", "%1", "left")

\* new LevelOverride(level), then .start(n) and .overrideLevel(l) or neither.
LevelOverrides ==
    {LevelOverride(0, None, None),
     LevelOverride(0, Some(3), None),
     LevelOverride(1, None, Some(OverrideLevel(ReplacementLevel))),
     LevelOverride(1, Some(0), Some(OverrideLevel(ReplacementLevel)))}

\* The sequences of at most n overrides.
OverrideSeqs(n) == UNION {[1..k -> LevelOverrides] : k \in 0..n}

NextNumbering ==
    \/ addAbstractNumbering(AbstractNumbering(0, <<>>))
    \/ \E abstractNumId \in 0..1, os \in OverrideSeqs(MaxOverrides) :
          addNumbering(Numbering(0, abstractNumId, os))
    \/ json
    \/ build

SpecNumbering == Init /\ [][NextNumbering]_vars

\* The calls of one name the engine document received in the last build().
DocxCalls(fn) == SelectSeq(Val(ret.docx).calls, LAMBDA c : Fn(c) = fn)

\* The calls of one name an engine object received.
CallsOf(obj, fn) == SelectSeq(obj.calls, LAMBDA c : Fn(c) = fn)

\* The engine override e carries the level index, start and Level of override o.
OverridePassed(e, o) ==
    /\ e.ctor = <<"createLevelOverride", o.level>>
    /\ CallsOf(e, "start") =
          (IF o.startOverride = None THEN <<>>
           ELSE << <<"start", Val(o.startOverride)>> >>)
    /\ IF o.levelOverride = None
       THEN CallsOf(e, "level") = <<>>
       ELSE /\ Len(CallsOf(e, "level")) = 1
            /\ CallsOf(e, "level")[1][2].ctor =
                  <<"createLevel", Val(o.levelOverride).level,
                    Val(o.levelOverride).start, Val(o.levelOverride).format,
                    Val(o.levelOverride).text, Val(o.levelOverride).jc>>

\* C2: for every Numbering the engine receives one level override per entry of
\* its overrides, in order and with the entry's level index; the override has a
\* start exactly when startOverride is set and a replacement Level (level,
\* start, format, text, justification of the caller) exactly when
\* levelOverride is set.
C2_OverridesPassedInOrder ==
    ret.op = "build" =>
       /\ Len(DocxCalls("add_numbering")) = Len(numberings)
       /\ \A i \in 1..Len(numberings) :
             LET e == DocxCalls("add_numbering")[i][2]
             IN  /\ e.ctor = <<"createNumbering", numberings[i].id,
                                numberings[i].abstractNumId>>
                 /\ Len(e.calls) = Len(numberings[i].overrides)
                 /\ \A k \in 1..Len(e.calls) :
                       /\ Fn(e.calls[k]) = "add_override"
                       /\ OverridePassed(e.calls[k][2], numberings[i].overrides[k])

\* A build of a numbering whose first override sets only a start and whose
\* second replaces level 1 and starts it at 0.
C2_StartThenLevelBuilt ==
    /\ ret.op = "build"
    /\ Len(numberings) = 1
    /\ Len(numberings[1].overrides) = 2
    /\ numberings[1].overrides[1] = LevelOverride(0, Some(3), None)
    /\ numberings[1].overrides[2] =
          LevelOverride(1, Some(0), Some(OverrideLevel(ReplacementLevel)))
    /\ Len(DocxCalls("add_numbering")[1][2].calls) = 2

\* Some numbering names an abstract numbering that was not added.
UnresolvedAbstractNumId ==
    \E i \in 1..Len(numberings) :
       \A j \in 1..Len(abstractNumberings) :
          abstractNumberings[j].id # numberings[i].abstractNumId

\* C10: build() fails with a ValidationError and returns no bytes whenever a
\* Numbering's abstractNumId is the id of no AbstractNumbering of the
\* document, and does not fail on this check when every abstractNumId resolves.
C10_UnresolvedAbstractNumIdFails ==
    ret.op = "build" =>
       IF UnresolvedAbstractNumId
       THEN /\ ret.error # None
            /\ Val(ret.error).name = "ValidationError"
            /\ ret.value = None
       ELSE ret.error = None /\ ret.value # None

\* A build that failed over a numbering bound to the missing abstract numbering 1.
C10_FailedOnMissingAbstract ==
    /\ ret.op = "build"
    /\ ret.error # None
    /\ Len(abstractNumberings) = 1
    /\ Len(numberings) = 1
    /\ numberings[1].abstractNumId = 1

-----------------------------------------------------------------------------
(* SpecConvert: the two enum conversions, each applied to a string drawn   *)
(* from the recognized names, their case variants and other names.         *)

ConvertInputs ==
    BorderTypeCases \cup WidthTypeCases \cup
    {"", " ", "Nil", "NIL", "None", "NONE", "Single", "SINGLE", "Thick", "Double",
     "Dotted", "Dashed", "dotdash", "DotDash", "dotdotdash", "Triple", "wave",
     "dashSmallGap", "outset", "inset", "pct", "PCT", "dxa", "Dxa", "auto", "AUTO",
     "undefined", "null"}

InitConvert ==
    /\ InitDocx
    /\ conv \in {[fn |-> "none", arg |-> t, result |-> ""] : t \in ConvertInputs}

NextConvert ==
    \/ applyConvertBorderType
    \/ applyConvertWidthType

SpecConvert == InitConvert /\ [][NextConvert]_vars

\* The engine variant of each recognized border type name.
BorderTypeVariant ==
    [nil |-> "BorderType.Nil", none |-> "BorderType.None",
     single |-> "BorderType.Single", thick |-> "BorderType.Thick",
     double |-> "BorderType.Double", dotted |-> "BorderType.Dotted",
     dashed |-> "BorderType.Dashed", dotDash |-> "BorderType.DotDash",
     dotDotDash |-> "BorderType.DotDotDash", triple |-> "BorderType.Triple"]

\* The engine variant of each recognized width type name.
WidthTypeVariant ==
    [nil |-> "WidthType.Nil", Pct |-> "WidthType.Pct", DXA |-> "WidthType.DXA",
     Auto |-> "WidthType.Auto"]

\* C3: convertBorderType and convertWidthType always return a variant: each
\* recognized border type name gives its own variant and any other string
\* Single; each recognized width type name gives its own variant and any other
\* string DXA.
C3_ConversionsTotalWithDefault ==
    /\ conv.fn = "convertBorderType" =>
          conv.result = (IF conv.arg \in DOMAIN BorderTypeVariant
                         THEN BorderTypeVariant[conv.arg] ELSE "BorderType.Single")
    /\ conv.fn = "convertWidthType" =>
          conv.result = (IF conv.arg \in DOMAIN WidthTypeVariant
                         THEN WidthTypeVariant[conv.arg] ELSE "WidthType.DXA")

\* convertBorderType was applied to a name it does not recognize.
C3_UnrecognizedBorderConverted ==
    /\ conv.fn = "convertBorderType"
    /\ conv.arg = "wave"
    /\ conv.result = "BorderType.Single"

-----------------------------------------------------------------------------
(* SpecBorders: a cell given borders slot by slot, in any order, and built. *)

\* The borders the caller sets: two per slot, so that a slot can be set again.
SlotBorders ==
    {TableCellBorder(4, "FF0000", "dotted"), TableCellBorder(8, "auto", "double")}

NextBorders ==
    \/ \E i \in 1..Len(BorderSlots), b \in SlotBorders :
          TableCell_setBorder(BorderSlots[i], b)
    \/ Docx_buildCell

SpecBorders == Init /\ [][NextBorders]_vars

\* The slots of the cell being composed that hold a border, in slot order.
SetSlots ==
    SelectSeq(BorderSlots,
              LAMBDA slot : /\ IsSome(cell.property.borders)
                            /\ IsSome(Val(cell.property.borders)[slot]))

\* The engine border e is the border of the slot: position, size, color, type.
BorderPassed(e, slot) ==
    LET b == Val(Val(cell.property.borders)[slot])
    IN  /\ e.ctor = <<"createTableCellBorder", TableCellBorderPosition(slot)>>
        /\ e.calls = << <<"size", b._size>>, <<"color", b._color>>,
                        <<"border_type", BorderTypeVariant[b._border_type]>> >>

\* C4: the built cell has exactly one set_border per slot that is set, with the
\* slot's own position, size, color and border type, and none for a slot that
\* is not set.
C4_OneSetBorderPerSetSlot ==
    ret.op = "buildCell" =>
       LET calls == CallsOf(Val(ret.value), "set_border")
       IN  /\ Len(calls) = Len(SetSlots)
           /\ \A i \in 1..Len(calls) : BorderPassed(calls[i][2], SetSlots[i])

\* A cell with both diagonals set was built with two set_border calls.
C4_BothDiagonalsBuilt ==
    /\ ret.op = "buildCell"
    /\ SetSlots = <<"tl2br", "tr2bl">>
    /\ Len(CallsOf(Val(ret.value), "set_border")) = 2

-----------------------------------------------------------------------------
(* SpecPage: page size and orientation set in any order, then serialized.  *)

\* Page widths and heights in twentieths of a point: the sides of A4 and A3.
PageLengths == {11906, 16838, 23811}

NextPage ==
    \/ \E w \in PageLengths, h \in PageLengths : pageSize(w, h)
    \/ \E o \in {"landscape", "portrait"} : pageOrientation(o)
    \/ json
    \/ build

SpecPage == Init /\ [][NextPage]_vars

\* The last call serialized the document: the engine document is in ret.docx.
Serialized == ret.op \in {"build", "json"}

\* The orientation call that passes on the orientation the caller set.
OrientationPassed(orient) ==
    CASE orient = None -> <<>>
      [] orient = Some("landscape") ->
            << <<"page_orient", "PageOrientationType.Landscape">> >>
      [] orient = Some("portrait") ->
            << <<"page_orient", "PageOrientationType.Portrait">> >>

\* C5: when a page size is set the engine receives the width and the height
\* as the caller gave them, in that order, whatever the orientation, and the
\* orientation the caller set, if any, unchanged.
C5_PageSizePassedUnswapped ==
    (Serialized /\ IsSome(sectionProperty._pageSize)
                /\ IsSome(Val(sectionProperty._pageSize).w)) =>
       /\ DocxCalls("page_size") =
             << <<"page_size", Val(sectionProperty._pageSize).w,
                  Val(sectionProperty._pageSize).h>> >>
       /\ DocxCalls("page_orient") =
             OrientationPassed(Val(sectionProperty._pageSize).orient)

\* A landscape page of width 16838 and height 11906 was built.
C5_LandscapeBuilt ==
    /\ ret.op = "build"
    /\ sectionProperty._pageSize =
          Some([w |-> Some(16838), h |-> Some(11906), orient |-> Some("landscape")])
    /\ Len(DocxCalls("page_size")) = 1

-----------------------------------------------------------------------------
(* SpecExtensions: task panes, web extensions and custom items added in    *)
(* any order, then serialized.                                             *)

\* The web extensions the caller adds: one without and one with properties.
WebExtensions ==
    {WebExtension("7f33b723", "abcd", "1.0.0.0", "developer", "Registry", <<>>),
     WebExtension("9a51c2e0", "efgh", "2.0.0.0", "en-US", "OMEX",
                  << <<"hello", "\"world\"">>, <<"n", "1">> >>)}

\* The custom items the caller adds.
CustomItems ==
    {[id |-> "06AC5857", xml |-> "<root xmlns=\"https://example.com\"></root>"],
     [id |-> "1D4B2A9C", xml |-> "<item/>"]}

NextExtensions ==
    \/ taskpanes
    \/ \E e \in WebExtensions : webextension(e)
    \/ \E item \in CustomItems : addCustomItem(item.id, item.xml)
    \/ json
    \/ build

SpecExtensions == Init /\ [][NextExtensions]_vars

\* The engine web extension e is the model web extension w with its properties.
WebExtensionPassed(e, w) ==
    /\ e.ctor = <<"createWebExtension", w._id, w._referenceId, w._version,
                  w._store, w._storeType>>
    /\ Len(e.calls) = Len(w.properties)
    /\ \A k \in 1..Len(e.calls) :
          e.calls[k] = <<"property", w.properties[k][1], w.properties[k][2]>>

\* C8: if taskpanes() was called the engine receives the task-pane flag and
\* every added web extension, in the order added and with its properties;
\* otherwise it receives no web extension and no task-pane flag.
C8_WebExtensionsIffTaskpanes ==
    Serialized =>
       IF _taskpanes
       THEN /\ Len(DocxCalls("taskpanes")) = 1
            /\ Len(DocxCalls("web_extension")) = Len(webextensions)
            /\ \A i \in 1..Len(webextensions) :
                  WebExtensionPassed(DocxCalls("web_extension")[i][2],
                                     webextensions[i])
       ELSE /\ DocxCalls("taskpanes") = <<>>
            /\ DocxCalls("web_extension") = <<>>

\* Two web extensions were added before task panes were enabled, and built.
C8_TwoExtensionsBuilt ==
    /\ ret.op = "build"
    /\ _taskpanes
    /\ Len(webextensions) = 2
    /\ webextensions[1] # webextensions[2]
    /\ Len(DocxCalls("web_extension")) = 2

\* C9: the engine receives each custom item once, with its id and XML, in the
\* order of the addCustomItem calls, whether or not task panes are enabled.
C9_CustomItemsPassedInOrder ==
    Serialized =>
       /\ Len(DocxCalls("add_custom_item")) = Len(customItems)
       /\ \A i \in 1..Len(customItems) :
             DocxCalls("add_custom_item")[i] =
                <<"add_custom_item", customItems[i].id, customItems[i].xml>>

\* Two different custom items were built without task panes.
C9_TwoItemsBuiltWithoutTaskpanes ==
    /\ ret.op = "build"
    /\ ~_taskpanes
    /\ Len(customItems) = 2
    /\ customItems[1] # customItems[2]
    /\ Len(DocxCalls("add_custom_item")) = 2

-----------------------------------------------------------------------------
(* SpecNested: tables put into cells of other tables, before or after the  *)
(* inner table got its rows and grid, and built.                           *)

\* The grid the caller gives table t: t columns, so no two tables share a grid.
GridOf(t) == [i \in 1..t |-> 2000]

\* The children of the cells of a row.
RowChildren(r) == Flatten([j \in 1..Len(r.cells) |-> r.cells[j].children])

\* The children of the cells of a table.
TableChildren(t) ==
    Flatten([i \in 1..Len(tables[t].rows) |-> RowChildren(tables[t].rows[i])])

\* The children of every cell there is: the composed one, those of the
\* composed row and those of the tables.
AllCellChildren ==
    cell.children \o RowChildren(row)
    \o Flatten([u \in 1..Len(tables) |-> TableChildren(u)])

\* The node is in no cell yet: the caller puts a node in one place.
InNoCell(child) == \A k \in 1..Len(AllCellChildren) : AllCellChildren[k] # child

\* The caller gives a table its grid first, and nests it after that.
NextNested ==
    \/ Len(paras) = 0 /\ newParagraph
    \/ \E p \in 1..Len(paras) :
          /\ InNoCell(ParagraphRef(p))
          /\ Len(cell.children) = 0
          /\ TableCell_addParagraph(p)
    \/ newTable
    \/ \E t \in 1..Len(tables) :
          /\ tables[t] = Table0
          /\ InNoCell(TableRef(t))
          /\ Table_setGrid(t, GridOf(t))
    \/ \E t \in 1..Len(tables) :
          /\ InNoCell(TableRef(t))
          /\ tables[t].grid # <<>>
          /\ TableCell_addTable(t)
    \/ TableRow_addCell
    \/ \E t \in 1..Len(tables) : Table_addRow(t)
    \/ \E t \in 1..Len(tables) : Docx_buildTable(t)

SpecNested == Init /\ [][NextNested]_vars

\* The calls of an engine cell that add a child.
CellAdds(e) ==
    SelectSeq(e.calls, LAMBDA c : Fn(c) \in {"add_paragraph", "add_table"})

RECURSIVE TableEmitted(_, _)
\* The engine table e has the rows, the cells per row and the grid of table t
\* and nothing else, and each table in a cell of t is emitted, in the same
\* way, as the child of the engine cell at the position it has in the cell.
TableEmitted(e, t) ==
    /\ e.ctor = <<"createTable">>
    /\ CallsOf(e, "set_grid") = << <<"set_grid", tables[t].grid>> >>
    /\ Len(CallsOf(e, "add_row")) = Len(tables[t].rows)
    /\ \A i \in 1..Len(tables[t].rows) :
          LET er == CallsOf(e, "add_row")[i][2]
          IN  /\ Len(CallsOf(er, "add_cell")) = Len(tables[t].rows[i].cells)
              /\ \A j \in 1..Len(tables[t].rows[i].cells) :
                    LET ec == CallsOf(er, "add_cell")[j][2]
                        cs == tables[t].rows[i].cells[j].children
                    IN  /\ Len(CellAdds(ec)) = Len(cs)
                        /\ \A k \in 1..Len(cs) :
                              cs[k].kind = "Table" =>
                                 /\ Fn(CellAdds(ec)[k]) = "add_table"
                                 /\ TableEmitted(CellAdds(ec)[k][2], cs[k].ref)

\* C6: a table nested in a cell of another table, to any depth, is emitted
\* as a child of that cell at its position among the cell's children, and
\* the outer table is emitted with its own rows, cells per row and grid only.
C6_NestedTableStaysInCell ==
    ret.op = "buildTable" => TableEmitted(Val(ret.value), Val(ret.arg))

\* Table t holds table u in the cell of its row, as the child at position k.
Holds(t, u, k) ==
    /\ Len(tables[t].rows) = 1
    /\ Len(tables[t].rows[1].cells[1].children) >= k
    /\ tables[t].rows[1].cells[1].children[k] = TableRef(u)

\* A table was built that holds, after a paragraph in the same cell, a table
\* with a grid of its own that holds a third table with a row.
C6_TwoLevelsBuilt ==
    /\ ret.op = "buildTable"
    /\ Len(tables) = 3
    /\ \E t, u, v \in 1..3 :
          /\ ret.arg = Some(t)
          /\ Holds(t, u, 2)
          /\ Holds(u, v, 1)
          /\ tables[u].grid # <<>>
          /\ tables[u].grid # tables[t].grid
          /\ Len(tables[v].rows) = 1

-----------------------------------------------------------------------------
(* SpecWalk: a paragraph given runs and bookmarks, the document given the  *)
(* paragraph and bookmarks, in any order, and built.                       *)

\* The children of the runs: text, and breaks of a type the builder names and
\* of one it does not.
RunChildren == {Text("a"), Break("page"), Break("line")}

\* The children the caller gives a paragraph: runs of one or two children and
\* a bookmark start.
ParagraphChildren ==
    {Run(cs) : cs \in [1..1 -> RunChildren] \cup [1..2 -> RunChildren]}
    \cup {BookmarkStart(1, "here")}

NextWalk ==
    \/ Len(paras) = 0 /\ newParagraph
    \/ \E p \in 1..Len(paras), child \in ParagraphChildren :
          Paragraph_addChild(p, child)
    \/ \E p \in 1..Len(paras) : addParagraph(p)
    \/ addBookmarkStart(2, "top")
    \/ addBookmarkEnd(2)
    \/ build

SpecWalk == Init /\ [][NextWalk]_vars

\* The add call that emits a child, by the kind of the child.
AddCall ==
    [Paragraph |-> "add_paragraph", Table |-> "add_table",
     BookmarkStart |-> "add_bookmark_start", BookmarkEnd |-> "add_bookmark_end",
     Run |-> "add_run", Insert |-> "add_insert", Delete |-> "add_delete",
     Comment |-> "add_comment_start", CommentEnd |-> "add_comment_end",
     Text |-> "add_text", DeleteText |-> "add_delete_text", Tab |-> "add_tab",
     Break |-> "add_break"]

\* The calls of an engine object that add a child.
Adds(e) ==
    SelectSeq(e.calls, LAMBDA c : Fn(c) \in {AddCall[k] : k \in DOMAIN AddCall})

\* The engine object has one add call per child, of the child's kind, in order.
ChildrenWalked(e, cs) ==
    /\ Len(Adds(e)) = Len(cs)
    /\ \A i \in 1..Len(cs) : Fn(Adds(e)[i]) = AddCall[cs[i].kind]

\* The same for an engine paragraph and, below it, for each of its runs.
ParagraphWalked(e, p) ==
    /\ ChildrenWalked(e, paras[p].children)
    /\ \A i \in 1..Len(paras[p].children) :
          paras[p].children[i].kind = "Run" =>
             ChildrenWalked(Adds(e)[i][2], paras[p].children[i].children)

RECURSIVE TableWalked(_, _)
\* The same for an engine table: one add_row per row, one add_cell per cell,
\* and the children of each cell walked, paragraphs and tables alike.
TableWalked(e, t) ==
    /\ Len(CallsOf(e, "add_row")) = Len(tables[t].rows)
    /\ \A i \in 1..Len(tables[t].rows) :
          LET er == CallsOf(e, "add_row")[i][2]
          IN  /\ Len(CallsOf(er, "add_cell")) = Len(tables[t].rows[i].cells)
              /\ \A j \in 1..Len(tables[t].rows[i].cells) :
                    LET ec == CallsOf(er, "add_cell")[j][2]
                        cs == tables[t].rows[i].cells[j].children
                    IN  /\ ChildrenWalked(ec, cs)
                        /\ \A k \in 1..Len(cs) :
                              IF cs[k].kind = "Paragraph"
                              THEN ParagraphWalked(Adds(ec)[k][2], cs[k].ref)
                              ELSE TableWalked(Adds(ec)[k][2], cs[k].ref)

\* C7: for the document, every paragraph, every run, every table, every row
\* and every cell, the engine receives exactly one add call per child of the
\* model node, in the order of the children.
C7_EveryChildEmittedInOrder ==
    ret.op = "build" =>
       /\ ChildrenWalked(Val(ret.docx), children)
       /\ \A i \in 1..Len(children) :
             /\ children[i].kind = "Paragraph" =>
                   ParagraphWalked(Adds(Val(ret.docx))[i][2], children[i].ref)
             /\ children[i].kind = "Table" =>
                   TableWalked(Adds(Val(ret.docx))[i][2], children[i].ref)

-----------------------------------------------------------------------------
(* The engine instance of build() and json(), under SpecNumbering, where   *)
(* the engine's build can fail.                                            *)

\* C11: the engine instance that build() or json() got from createDocx has
\* been freed exactly once when the call ends, whether it returned or failed,
\* and free is the last call the instance received.
C11_EngineFreedOnce ==
    Serialized =>
       /\ Len(DocxCalls("free")) = 1
       /\ Fn(Val(ret.docx).calls[Len(Val(ret.docx).calls)]) = "free"

-----------------------------------------------------------------------------
(* The model across build() and json(), under SpecExtensions.              *)

\* C12: build() and json() leave every field of the Docx as it was: children,
\* abstractNumberings, numberings, hasNumberings, settings, docProps,
\* sectionProperty, styles, _taskpanes, webextensions and customItems.
C12_SerializeLeavesModel ==
    [][ret'.op \in {"build", "json"} => docxVars' = docxVars]_vars

\* A document with task panes, two web extensions and a custom item was built.
C12_FullDocumentBuilt ==
    /\ ret.op = "build"
    /\ _taskpanes
    /\ Len(webextensions) = 2
    /\ Len(customItems) = 1

-----------------------------------------------------------------------------
(* SpecRoundTrip: a paragraph numbered before or after it is added,        *)
(* numbering definitions, build, json, and the built bytes read back.      *)

NextRoundTrip ==
    \/ Len(paras) = 0 /\ newParagraph
    \/ \E p \in 1..Len(paras) : Paragraph_numbering(p, 0, 0)
    \/ \E p \in 1..Len(paras) : addParagraph(p)
    \/ addAbstractNumbering(AbstractNumbering(0, <<>>))
    \/ addNumbering(Numbering(0, 0, <<>>))
    \/ json
    \/ build
    \/ readDocx

SpecRoundTrip == Init /\ [][NextRoundTrip]_vars

\* C14: the model read back from the bytes of build() equals json() of the
\* same model, and the numbering part is absent from it when the model uses
\* no numbering.
C14_ReadBackEqualsJson ==
    ret.op = "readDocx" =>
       /\ Val(ret.value) = EngineJson(createDocx)
       /\ ~ChildUsesNumbering => Val(ret.value).numberings = None

-----------------------------------------------------------------------------
(* SpecGrid: one table of cells with and without a grid span, a grid of    *)
(* one or two columns set by the caller, and buildTable.                   *)

Grids == {<<2000>>, <<2000, 2000>>}

NextGrid ==
    \/ Len(tables) = 0 /\ newTable
    \/ \E n \in 1..2 : TableCell_gridSpan(n)
    \/ TableRow_addCell
    \/ \E t \in 1..Len(tables) : Table_addRow(t)
    \/ \E t \in 1..Len(tables) : \E g \in Grids : Table_setGrid(t, g)
    \/ \E t \in 1..Len(tables) : Docx_buildTable(t)

SpecGrid == Init /\ [][NextGrid]_vars

\* The columns a cell takes: its gridSpan, or one when it has none.
SpanOf(c) == IF IsSome(c.property.gridSpan) THEN Val(c.property.gridSpan) ELSE 1

RECURSIVE SpanSum(_)
\* The columns the cells take together.
SpanSum(cells) ==
    IF cells = <<>> THEN 0 ELSE SpanOf(Head(cells)) + SpanSum(Tail(cells))

\* The largest number of columns a row of the table takes.
MaxRowSpan(rows) ==
    IF rows = <<>> THEN 0
    ELSE CHOOSE m \in {SpanSum(rows[i].cells) : i \in 1..Len(rows)} :
            \A i \in 1..Len(rows) : SpanSum(rows[i].cells) <= m

\* C15: the grid passed to the engine for a table with rows has as many
\* columns as the widest row takes, a cell taking its gridSpan or one column.
C15_GridColumnsMatchSpans ==
    (ret.op = "buildTable" /\ tables[Val(ret.arg)].rows # <<>>) =>
       Len(CallsOf(Val(ret.value), "set_grid")[1][2])
          = MaxRowSpan(tables[Val(ret.arg)].rows)

-----------------------------------------------------------------------------
(* SpecComments: a paragraph of comment starts and comment ends with ids   *)
(* 0 and 1 in any order, added to the document, build and json.            *)

CommentMarkers == {Comment(id) : id \in 0..1} \cup {CommentEnd(id) : id \in 0..1}

NextComments ==
    \/ Len(paras) = 0 /\ newParagraph
    \/ \E p \in 1..Len(paras) : \E m \in CommentMarkers : Paragraph_addChild(p, m)
    \/ \E p \in 1..Len(paras) : addParagraph(p)
    \/ json
    \/ build

SpecComments == Init /\ [][NextComments]_vars

\* The comment starts and comment ends of an engine paragraph, in order, each
\* as <<call, comment id>>.
MarkersOfParagraph(e) ==
    LET ms == SelectSeq(e.calls,
                        LAMBDA c : Fn(c) \in {"add_comment_start", "add_comment_end"})
    IN  [i \in 1..Len(ms) |->
            IF Fn(ms[i]) = "add_comment_start"
            THEN <<"add_comment_start", ms[i][2].ctor[2]>>
            ELSE ms[i]]

\* The comment starts and comment ends of the paragraphs of the document body.
MarkersOfDocument(docx) ==
    LET ps == CallsOf(docx, "add_paragraph")
    IN  Flatten([i \in 1..Len(ps) |-> MarkersOfParagraph(ps[i][2])])

\* C16: in every document build() or json() serialized without an error, each
\* comment end comes after a comment start with the same id, and each comment
\* start id has exactly one comment end with that id.
C16_CommentMarkersPaired ==
    (Serialized /\ ret.error = None) =>
       LET ms == MarkersOfDocument(Val(ret.docx))
       IN  \A i \in 1..Len(ms) :
              IF ms[i][1] = "add_comment_end"
              THEN \E j \in 1..(i - 1) : ms[j] = <<"add_comment_start", ms[i][2]>>
              ELSE Cardinality({k \in 1..Len(ms) :
                                  ms[k] = <<"add_comment_end", ms[i][2]>>}) = 1

-----------------------------------------------------------------------------
(* SpecTwo: two Docx instances of one caller, each with its own fields and *)
(* its own Styles, and every interleaving of their mutators, json and      *)
(* build.                                                                  *)

NextTwo ==
    \/ turn
    \/ taskpanes
    \/ \E item \in CustomItems : addCustomItem(item.id, item.xml)
    \/ \E size \in {24} : defaultSize(size)
    \/ json
    \/ build

SpecTwo == Init /\ [][NextTwo]_vars

\* C17: a mutator, json() or build() called on one Docx instance leaves every
\* field of the other instance as it was, in any interleaving of the calls on
\* the two.
C17_CallLeavesOtherInstance ==
    [][this' = this => other' = other]_vars

\* The second instance was built empty while the first holds two custom items,
\* task panes and a default size.
C17_SecondBuiltBesideFirst ==
    /\ this = 2
    /\ ret.op = "build"
    /\ customItems = <<>>
    /\ ~_taskpanes
    /\ Len(other.customItems) = 2
    /\ other._taskpanes
    /\ other.styles # styles

-----------------------------------------------------------------------------
(* SpecCommentBody: comments whose children are the paragraphs and tables  *)
(* made so far, with and without author, date and parent comment id, and   *)
(* buildComment.                                                           *)

\* The references to the paragraphs and tables made so far.
NodeRefs ==
    {ParagraphRef(p) : p \in 1..Len(paras)} \cup {TableRef(t) : t \in 1..Len(tables)}

\* The comments of up to two children over the nodes made so far.
Comments ==
    {[Comment(1) EXCEPT !.children = cs, !._author = a, !._date = d,
                        !._parentCommentId = pc] :
        cs \in {<<>>} \cup {<<x>> : x \in NodeRefs}
                     \cup {<<x, y>> : x \in NodeRefs, y \in NodeRefs},
        a \in {None, Some("bokuweb")},
        d \in {None, Some("2019-01-01T00:00:00Z")},
        pc \in {None, Some(0), Some(2)}}

NextCommentBody ==
    \/ newParagraph
    \/ Len(tables) = 0 /\ newTable
    \/ \E c \in Comments : Docx_buildComment(c)

SpecCommentBody == Init /\ [][NextCommentBody]_vars

\* The engine comment received the call fn with value o when o is set, and no
\* such call when it is not.
PassedWhenSet(e, fn, o) ==
    CallsOf(e, fn) = (IF IsSome(o) THEN << <<fn, Val(o)>> >> ELSE <<>>)

\* C18: the built comment has one child per child of the Comment, Paragraph or
\* Table, in order, and its author, date and parent comment id whenever they
\* are set.
C18_CommentPassedWhole ==
    ret.op = "buildComment" =>
       LET c == Val(ret.arg)
           e == Val(ret.value)
       IN  /\ ChildrenWalked(e, c.children)
           /\ PassedWhenSet(e, "author", c._author)
           /\ PassedWhenSet(e, "date", c._date)
           /\ PassedWhenSet(e, "parent_comment_id", c._parentCommentId)

-----------------------------------------------------------------------------
(* SpecOverride: numberings whose overrides replace level 1 with a Level   *)
(* that is plain, bold, of size 20 or followed by a space, and build.      *)

ReplacementLevels ==
    {ReplacementLevel,
     [ReplacementLevel EXCEPT !.runProperty.bold = TRUE],
     [ReplacementLevel EXCEPT !.runProperty.size = Some(20)],
     [ReplacementLevel EXCEPT !.levelSuffix = Some("space")]}

ReplacingOverrides ==
    {LevelOverride(1, None, Some(OverrideLevel(l))) : l \in ReplacementLevels}

NextOverride ==
    \/ addAbstractNumbering(AbstractNumbering(0, <<>>))
    \/ \E os \in UNION {[1..k -> ReplacingOverrides] : k \in 0..MaxOverrides} :
          addNumbering(Numbering(0, 0, os))
    \/ json
    \/ build

SpecOverride == Init /\ [][NextOverride]_vars

\* The Level an override's replacement was made from.
LevelOf(r) ==
    [id |-> r.level, start |-> r.start, format |-> r.format, text |-> r.text,
     jc |-> r.jc, levelSuffix |-> r.levelSuffix, runProperty |-> r.runProperty,
     paragraphProperty |-> r.paragraphProperty]

\* C19: the Level an override replaces a level with reaches the engine whole,
\* as buildLevel builds it: suffix, bold, italic, size, fonts and indent as
\* well as level, start, format, text and jc.
C19_ReplacementLevelPassedWhole ==
    (Serialized /\ ret.error = None) =>
       \A i \in 1..Len(numberings) : \A j \in 1..Len(numberings[i].overrides) :
          IsSome(numberings[i].overrides[j].levelOverride) =>
             CallsOf(DocxCalls("add_numbering")[i][2].calls[j][2], "level") =
                << <<"level",
                     buildLevel(LevelOf(Val(numberings[i].overrides[j].levelOverride)))>> >>

-----------------------------------------------------------------------------
(* SpecZero: the numeric properties set to 0 and to a positive number: run *)
(* size and spacing, paragraph size, level size, row height, default size  *)
(* and default spacing; build, json and buildTable.                        *)

Numbers == {0, 24}

\* new Run().size(n).spacing(n)
SizedRun(n) == [Run(<<>>) EXCEPT !.property.size = Some(n), !.property.spacing = Some(n)]

\* new Level(0, 1, "decimal", "%1", "left").size(n)
SizedLevel(n) ==
    [Level(0, 1, "decimal", "%1", "left") EXCEPT !.runProperty.size = Some(n)]

NextZero ==
    \/ \E n \in Numbers : defaultSize(n)
    \/ \E n \in Numbers : defaultSpacing(n)
    \/ Len(paras) = 0 /\ newParagraph
    \/ \E p \in 1..Len(paras), n \in Numbers :
          Len(paras[p].children) = 0 /\ Paragraph_addChild(p, SizedRun(n))
    \/ \E p \in 1..Len(paras), n \in Numbers : Paragraph_size(p, n)
    \/ \E p \in 1..Len(paras) : Len(children) = 0 /\ addParagraph(p)
    \/ \E n \in Numbers : addAbstractNumbering(AbstractNumbering(0, <<SizedLevel(n)>>))
    \/ Len(tables) = 0 /\ newTable
    \/ TableRow_addCell
    \/ \E n \in Numbers : Len(row.cells) = 1 /\ TableRow_rowHeight(n)
    \/ \E t \in 1..Len(tables) : Table_addRow(t)
    \/ \E t \in 1..Len(tables) : Docx_buildTable(t)
    \/ json
    \/ build

SpecZero == Init /\ [][NextZero]_vars

\* When the number o is set, the engine object received it in one call fn.
NumberPassed(e, fn, o) == IsSome(o) => CallsOf(e, fn) = << <<fn, Val(o)>> >>

\* The document defaults, the level sizes, the paragraph sizes and the run
\* sizes and spacings that are set reached the engine in the last build() or
\* json().
NumbersOfDocumentPassed ==
    /\ NumberPassed(Val(ret.docx), "default_size",
                    Val(Val(styles.docDefaults).runProperty).size)
    /\ NumberPassed(Val(ret.docx), "default_spacing",
                    Val(Val(styles.docDefaults).runProperty).spacing)
    /\ \A i \in 1..Len(abstractNumberings) :
          \A j \in 1..Len(abstractNumberings[i].levels) :
             NumberPassed(DocxCalls("add_abstract_numbering")[i][2].calls[j][2], "size",
                          abstractNumberings[i].levels[j].runProperty.size)
    /\ \A i \in 1..Len(children) :
          LET p == paras[children[i].ref]
              e == DocxCalls("add_paragraph")[i][2]
          IN  /\ NumberPassed(e, "size", p.property.runProperty.size)
              /\ \A j \in 1..Len(p.children) :
                    /\ NumberPassed(CallsOf(e, "add_run")[j][2], "size",
                                    p.children[j].property.size)
                    /\ NumberPassed(CallsOf(e, "add_run")[j][2], "spacing",
                                    p.children[j].property.spacing)

\* The row heights that are set reached the engine in the last buildTable().
RowHeightsPassed ==
    \A i \in 1..Len(tables[Val(ret.arg)].rows) :
       NumberPassed(CallsOf(Val(ret.value), "add_row")[i][2], "row_height",
                    tables[Val(ret.arg)].rows[i].height)

\* C20: a numeric property that was set is passed to the engine whatever its
\* value, 0 included: run size and spacing, paragraph size, level size, row
\* height, default size and default spacing.
C20_SetNumberPassed ==
    /\ Serialized => NumbersOfDocumentPassed
    /\ ret.op = "buildTable" => RowHeightsPassed

-----------------------------------------------------------------------------
(* SpecLevel: buildLevel applied to levels with no suffix, each suffix the *)
(* code names, a case variant and other strings, plain and bold, with and  *)
(* without a size.                                                         *)

LevelSuffixes ==
    {None, Some("nothing"), Some("space"), Some("tab"), Some("Space"), Some("NOTHING"),
     Some(""), Some("comma")}

Levels ==
    {[Level(id, start, "decimal", "%1", "left")
         EXCEPT !.levelSuffix = sfx, !.runProperty.bold = b, !.runProperty.size = sz] :
        id \in 0..1, start \in 1..2, sfx \in LevelSuffixes, b \in BOOLEAN,
        sz \in {None, Some(20)}}

NextLevel == \E l \in Levels : Docx_buildLevel(l)

SpecLevel == Init /\ [][NextLevel]_vars

\* C21: buildLevel never fails and sets the suffix of the level exactly once:
\* Nothing for "nothing", Space for "space", Tab for every other value and for
\* no value.
C21_SuffixSetOnce ==
    ret.op = "buildLevel" =>
       /\ ret.error = None
       /\ CallsOf(Val(ret.value), "suffix") =
             << <<"suffix",
                  IF Val(ret.arg).levelSuffix = Some("nothing")
                  THEN "LevelSuffixType.Nothing"
                  ELSE IF Val(ret.arg).levelSuffix = Some("space")
                       THEN "LevelSuffixType.Space"
                       ELSE "LevelSuffixType.Tab">> >>

\* A level with an unrecognized suffix and one with no suffix were built with Tab.
C21_UnrecognizedSuffixBuilt ==
    /\ ret.op = "buildLevel"
    /\ Val(ret.arg).levelSuffix \in {Some("comma"), Some("Space")}
    /\ CallsOf(Val(ret.value), "suffix") = << <<"suffix", "LevelSuffixType.Tab">> >>

-----------------------------------------------------------------------------
(* SpecMonotone: a paragraph and a table holding it, numbered or not, added *)
(* to the document in any order among other operations of Docx.            *)

NextMonotone ==
    \/ Len(paras) = 0 /\ newParagraph
    \/ \E p \in 1..Len(paras) : Paragraph_numbering(p, 0, 0)
    \/ \E p \in 1..Len(paras) : Len(cell.children) = 0 /\ TableCell_addParagraph(p)
    \/ Len(row.cells) = 0 /\ TableRow_addCell
    \/ Len(tables) = 0 /\ newTable
    \/ \E t \in 1..Len(tables) : Len(tables[t].rows) = 0 /\ Table_addRow(t)
    \/ \E p \in 1..Len(paras) : addParagraph(p)
    \/ \E t \in 1..Len(tables) : addTable(t)
    \/ addNumbering(Numbering(0, 0, <<>>))
    \/ taskpanes
    \/ json
    \/ build

SpecMonotone == Init /\ [][NextMonotone]_vars

\* The hasNumberings of the node a child of the document refers to.
NodeHasNumberings(child) ==
    IF child.kind = "Paragraph" THEN paras[child.ref].hasNumberings
    ELSE tables[child.ref].hasNumberings

\* C22: hasNumberings starts false; addParagraph and addTable make it true
\* exactly when the node they add has hasNumberings true at that moment and
\* leave it as it was otherwise; every other step leaves it unchanged, and no
\* step sets it back to false.
C22_HasNumberingsMonotone ==
    /\ hasNumberings = FALSE
    /\ [][/\ hasNumberings => hasNumberings'
          /\ IF ret'.op \in {"addParagraph", "addTable"}
             THEN hasNumberings' =
                     (hasNumberings \/ NodeHasNumberings(children'[Len(children')]))
             ELSE hasNumberings' = hasNumberings]_vars

\* The flag set by a numbered table was kept when a paragraph was added after
\* it, through taskpanes and build.
C22_FlagKeptAfterTable ==
    /\ ret.op = "build"
    /\ hasNumberings
    /\ _taskpanes
    /\ Len(children) = 2
    /\ children[1].kind = "Table"
    /\ children[2].kind = "Paragraph"

-----------------------------------------------------------------------------
(* SpecAppend: every operation of Docx that adds to a collection, in any   *)
(* order, with json and build in between.                                  *)

NextAppend ==
    \/ Len(paras) = 0 /\ newParagraph
    \/ Len(tables) = 0 /\ newTable
    \/ \E p \in 1..Len(paras) : addParagraph(p)
    \/ \E t \in 1..Len(tables) : addTable(t)
    \/ addBookmarkStart(1, "mark")
    \/ addBookmarkEnd(1)
    \/ addAbstractNumbering(AbstractNumbering(0, <<>>))
    \/ addNumbering(Numbering(0, 0, <<>>))
    \/ webextension(WebExtension("7f33b723", "abcd", "1.0.0.0", "developer",
                                 "Registry", <<>>))
    \/ addCustomItem("06AC5857", "<item/>")
    \/ json
    \/ build

SpecAppend == Init /\ [][NextAppend]_vars

\* The collections of the Docx.
Collections ==
    <<children, abstractNumberings, numberings, webextensions, customItems>>

\* The place in Collections of the collection an operation adds to, 0 for an
\* operation that adds to none.
OwnCollection(op) ==
    CASE op \in {"addParagraph", "addTable", "addBookmarkStart", "addBookmarkEnd"} -> 1
      [] op = "addAbstractNumbering" -> 2
      [] op = "addNumbering" -> 3
      [] op = "webextension" -> 4
      [] op = "addCustomItem" -> 5
      [] OTHER -> 0

====
